---- MODULE Spec2Model ----
(***************************************************************************)
(* A model of the translation coordinator of MTranCore                     *)
(* (src/js/translator.js), the language tables it consults                 *)
(* (src/unnamed/part_006, the Lang class) and the message protocol of its  *)
(* worker threads (src/js/worker.js).                                      *)
(*                                                                         *)
(* The coordinator runs on one JavaScript thread.  One action of the model *)
(* is one run-to-completion piece of it: a public call up to its first     *)
(* genuine suspension (file or network I/O, a worker's answer, a worker's  *)
(* exit), or the handling of one event together with the promise           *)
(* continuations that event releases.  Worker threads run in parallel and  *)
(* exchange messages with the coordinator through FIFO ports.              *)
(***************************************************************************)
EXTENDS Integers, Sequences, FiniteSets, TLC

VARIABLES
  cachedEngines,       \* Translator.#cachedEngines: language pair key -> engine data
  messageId,           \* Translator.#messageId
  pendingMessages,     \* Translator.#pendingMessages: the message ids that have a resolver
  memoryReleaseTimer,  \* Translator.#memoryReleaseTimer is set
  loop,                \* the clock and the timers of the coordinator's event loop
  autoRelease,         \* configuration: ENGINE_CACHE_ENABLE && ENGINE_CACHE_TIMEOUT_MINUTES > 0
  workersPerPair,      \* configuration: WORKERS_PER_LANGUAGE_PAIR
  workers,             \* every Worker created so far, by creation order
  calls,               \* the frames of the public calls (Translate, Preload, handle.translate)
  shutdown,            \* the frame of Shutdown()
  msgLog,              \* per message id: the promise made by translateSingleText
  faults,              \* the failures of workers, timers and loads so far
  store,               \* the model store (src/js/models.js) and its downloader
  detector,            \* a call of DetectLang and the language detector under it
  queue,               \* the WorkQueue of one worker thread and its event loop
  transfer,            \* one call of Downloader.download and the file at its destination
  thread,              \* the TranslationWorker of one worker thread and its parent port
  loader               \* the coordinator's #models and the calls of loadModels in progress

vars == << cachedEngines, messageId, pendingMessages, memoryReleaseTimer,
           loop, autoRelease, workersPerPair, workers, calls, shutdown, msgLog,
           faults, store, detector, queue, transfer, thread, loader >>

\* the components that are modelled on their own, apart from the coordinator
components == << store, detector, queue, transfer, thread, loader >>

-----------------------------------------------------------------------------
(* Bounds of the model.                                                    *)

\* the number of public calls that can be in progress in the concurrent model
MaxCalls == 2
\* the longest list of texts passed to one call
MaxTexts == 2
\* the number of times one caller discards the queue of its handle
MaxDiscards == 1
\* the number of failures (a worker crashes, the engine fails on a message,
\* an initialisation times out, a load fails) in one behaviour
MaxFaults == 1

\* the last instant of the clock
MaxTime == 5
\* the number of messages one worker thread receives
MaxMessages == 4
\* the number of calls of Preload that load models
MaxLoads == 2
\* the longest text in the model of the whitespace handling
MaxPad == 3

-----------------------------------------------------------------------------
(* The settings of the idle eviction, in units of the clock: the idle      *)
(* timeout (30 minutes by default), the period of the sweep timer (one     *)
(* minute) and the least time between two re-arms of an entry's timeout    *)
(* (five minutes).  The model keeps their order.                           *)

IdleTimeout == 3
CheckInterval == 1
ResetThreshold == 2

\* the value of a field that has never been assigned
Undefined == -1

-----------------------------------------------------------------------------
(* Language tables (class Lang).  The model keeps a subset of the codes:   *)
(* English, one language that has both an X->en and an en->X model,        *)
(* simplified Chinese, its alias and the three Han variants.               *)

MC2E == {"ja", "zh-Hans"}
MEC2 == {"ja", "zh-Hans"}
MC2ZH == {"zh-Hant", "zh-TW", "zh-HK"}
MCC == {"zh-Hans", "zh-Hant", "zh-TW", "zh-HK"}
AliasKeys == {"zh-CN"}
MALL == {"en"} \cup MC2E \cup MEC2 \cup MC2ZH \cup AliasKeys

\* Lang.MALIAS[code] || code
MALIAS(code) == IF code = "zh-CN" THEN "zh-Hans" ELSE code

\* Lang.ZH2CC: simplified -> variant conversion type
ZH2CC(code) == IF code = "zh-HK" THEN "s2hk" ELSE "s2twp"
\* Lang.CC2ZH: variant -> simplified conversion type
CC2ZH(code) == IF code = "zh-HK" THEN "hk2s" ELSE "tw2sp"

\* a code that is in no table, and the request for detection
BadCode == "xx"
FromArgs == MALL \cup {"auto", BadCode}
ToArgs == MALL \cup {BadCode}

-----------------------------------------------------------------------------
(* Texts.  A text is a sequence of tokens; a token <<g, f>> is the glyph   *)
(* g written in the script form f, and <<0, "ws">> is a whitespace         *)
(* character.  Script conversion and translation change the form of a      *)
(* token and keep its glyph, so that the origin of every output token      *)
(* stays visible.                                                          *)

WS == <<0, "ws">>
Glyph(g, f) == <<g, f>>

\* the script form a language is written in
FormOf(code) ==
  CASE code = "en" -> "lat"
    [] code = "ja" -> "jpn"
    [] code \in {"zh-Hans", "zh-CN"} -> "hans"
    [] code \in {"zh-Hant", "zh-TW"} -> "tw"
    [] code = "zh-HK" -> "hk"
    [] OTHER -> "lat"

\* !sourceText || !sourceText.trim()
IsBlank(text) == \A i \in 1..Len(text) : text[i] = WS

\* OpenCC.convert(text, type): maps the characters of one form to another
ConvertToken(tok, type) ==
  CASE type = "tw2sp" /\ tok[2] = "tw" -> <<tok[1], "hans">>
    [] type = "hk2s" /\ tok[2] = "hk" -> <<tok[1], "hans">>
    [] type = "s2twp" /\ tok[2] = "hans" -> <<tok[1], "tw">>
    [] type = "s2hk" /\ tok[2] = "hans" -> <<tok[1], "hk">>
    [] OTHER -> tok

Convert(text, type) == [i \in 1..Len(text) |-> ConvertToken(text[i], type)]

ConvertAll(texts, type) == [i \in 1..Len(texts) |-> Convert(texts[i], type)]

\* a soft hyphen (U+00AD): not whitespace, removed by CleanText
SHY == <<0, "shy">>

\* the number of whitespace characters at the start of a text: the match of
\* the greedy group ^(\s*) of WHITESPACE_REGEX
LeadingWs(text) ==
  IF IsBlank(text) THEN Len(text)
  ELSE (CHOOSE i \in 1..Len(text) :
          text[i] # WS /\ \A j \in 1..(i - 1) : text[j] = WS) - 1

\* the number of whitespace characters at the end of what the first group
\* has left: the match of the group (\s*)$ after the lazy group (.*?)
TrailingWs(text) ==
  IF IsBlank(text) THEN 0
  ELSE Len(text) - (CHOOSE i \in 1..Len(text) :
                      text[i] # WS /\ \A j \in (i + 1)..Len(text) : text[j] = WS)

\* cleanedSourceText.replaceAll("\u00AD", "")
RECURSIVE RemoveSoftHyphens(_)
RemoveSoftHyphens(text) ==
  IF text = <<>> THEN <<>>
  ELSE IF Head(text) = SHY THEN RemoveSoftHyphens(Tail(text))
  ELSE <<Head(text)>> \o RemoveSoftHyphens(Tail(text))

\* CleanText(sourceLanguage, sourceText); the space it puts after a
\* full-width full stop before a quotation mark is within the cleaned text
\* and is not modelled
CleanText(sourceText) ==
  LET b == LeadingWs(sourceText)
      a == TrailingWs(sourceText)
  IN [ whitespaceBefore |-> SubSeq(sourceText, 1, b),
       whitespaceAfter |-> SubSeq(sourceText, Len(sourceText) - a + 1, Len(sourceText)),
       cleanedSourceText |->
         RemoveSoftHyphens(SubSeq(sourceText, b + 1, Len(sourceText) - a)) ]

\* engine.translate([cleanedSourceText])[0] of an engine whose target is
\* `to`: every character that is not whitespace comes back in the form of
\* the target language
BergamotTranslate(to, text) ==
  [i \in 1..Len(text) |-> IF text[i] = WS THEN WS ELSE <<text[i][1], FormOf(to)>>]

\* the targetText without the whitespace CleanText took off
EngineTranslateUnwrapped(to, text) ==
  BergamotTranslate(to, CleanText(text).cleanedSourceText)

\* the targetText of handleTranslationRequest for sourceText `text`:
\* whitespaceBefore + result[0] + whitespaceAfter
EngineTranslate(to, text) ==
  LET c == CleanText(text)
  IN c.whitespaceBefore \o BergamotTranslate(to, c.cleanedSourceText)
       \o c.whitespaceAfter

\* the texts a caller passes for a source language
SampleTexts(code) ==
  { <<>>, <<WS>>, <<Glyph(1, FormOf(code))>>, <<Glyph(2, FormOf(code))>> }

TextLists(code) ==
  UNION { [1..n -> SampleTexts(code)] : n \in 0..MaxTexts }

\* the texts of at most MaxPad characters made of whitespace, soft hyphens
\* and one glyph of the source language
PaddedTexts(code) ==
  UNION { [1..n -> {WS, SHY, Glyph(1, FormOf(code))}] : n \in 0..MaxPad }

-----------------------------------------------------------------------------
(* JavaScript values.  The text argument and the result of a call are      *)
(* either a string or an array of strings: [arr, items], a string being    *)
(* carried as the one item of a record whose arr is FALSE.                 *)

Scalar(text) == [arr |-> FALSE, items |-> <<text>>]
Array(texts) == [arr |-> TRUE, items |-> texts]
NoValue == [arr |-> FALSE, items |-> <<>>]

\* getLanguagePairKey(fromLang, toLang)
getLanguagePairKey(fromLang, toLang) == <<fromLang, toLang>>

\* Models.getModel(fromLang, toLang) finds files in the catalogue: there is a
\* model into English for the codes of MC2E and out of English for MEC2
HasModel(fromLang, toLang) ==
  \/ toLang = "en" /\ fromLang \in MC2E
  \/ fromLang = "en" /\ toLang \in MEC2

\* createWorkerPool: needMiddle
needMiddle(fromLang, toLang) == fromLang # "en" /\ toLang # "en"

\* loadModels can succeed: every model it asks Models.getModel for exists
ModelsAvailable(fromLang, toLang) ==
  IF needMiddle(fromLang, toLang)
    THEN HasModel(fromLang, "en") /\ HasModel("en", toLang)
    ELSE HasModel(fromLang, toLang)

-----------------------------------------------------------------------------
(* analyzeTranslationPlan.  The function rebinds its own parameters        *)
(* fromLang and toLang; the plan it returns carries the flags and the      *)
(* conversion types only.                                                  *)

analyzeTranslationPlan(fromLang, toLang) ==
  LET needPre == fromLang \in MC2ZH
      needPost == toLang \in MC2ZH
      from2 == IF needPre THEN "zh-Hans" ELSE fromLang
      to2 == IF needPost THEN "zh-Hans" ELSE toLang
      pure == from2 \in MCC /\ to2 \in MCC
      pre == IF needPre THEN CC2ZH(fromLang) ELSE "null"
      post == IF needPost THEN ZH2CC(toLang) ELSE "null"
  IN [ needPreProcess |-> needPre,
       preProcessType |-> pre,
       needPostProcess |-> needPost,
       postProcessType |-> post,
       pureCC |-> pure,
       pureCCComplex |-> pure /\ needPre /\ needPost,
       pureCCComplexType1 |-> IF pure /\ needPre /\ needPost THEN pre ELSE "null",
       pureCCComplexType2 |-> IF pure /\ needPre /\ needPost THEN post ELSE "null" ]

\* validateLanguageCodes: "ok", or the error thrown
validateLanguageCodes(fromLang, toLang) ==
  IF fromLang \notin MALL THEN "invalid-from"
  ELSE IF toLang \notin MALL THEN "invalid-to"
  ELSE "ok"

-----------------------------------------------------------------------------
(* Language detection (Translator.DetectLang, src/js/ld.js).  The           *)
(* classifier is a library; `lib` says what it does in one call: whether    *)
(* the loading of its model and its identify() throw, and the alpha2 and    *)
(* alpha3 of the result of identify().                                      *)

\* a value that is not a string (null, a number, an object)
NotAString == << <<0, "object">> >>
IsString(v) == \A i \in 1..Len(v) : v[i][2] # "object"

\* null, and the value of a call that returns nothing
Null == "null"
NoResult == "undefined"

\* Config.MAX_DETECTION_LENGTH (64 by default), in characters of the model
MAX_DETECTION_LENGTH == 2

\* Lang.LD and Lang.LD2M
LD == {"zh"}
LD2M == [zh |-> "zh-Hans"]

\* CODEMAP of src/js/ld.js: three of its entries
CODEMAP == [yue |-> "zh-Hant", wuu |-> "zh-Hans", sco |-> "en"]

\* what the library can do in one call
Library(init, identify, alpha2, alpha3) ==
  [init |-> init, identify |-> identify, alpha2 |-> alpha2, alpha3 |-> alpha3]

\* the classifier loads, and identifies the language `code`
Identifies(code) == Library("ok", "ok", code, Null)

\* text.replace(/\s+/g, " "): a run of whitespace becomes one space
RECURSIVE CollapseSpaces(_)
CollapseSpaces(text) ==
  IF text = <<>> THEN <<>>
  ELSE IF Len(text) > 1 /\ text[1] = WS /\ text[2] = WS
    THEN CollapseSpaces(Tail(text))
  ELSE <<Head(text)>> \o CollapseSpaces(Tail(text))

\* String.prototype.trim
Trim(text) == SubSeq(text, LeadingWs(text) + 1, Len(text) - TrailingWs(text))

\* LanguageDetector.#cleanText(text)
cleanText(text) == Trim(CollapseSpaces(text))

\* LanguageDetector.detect(text): result.language, or NoResult when the
\* function returns nothing
detect(text, lib) ==
  IF lib.init = "throws" THEN "un"
  ELSE IF cleanText(text) = <<>> THEN "un"
  ELSE IF lib.identify = "throws" THEN "un"
  ELSE IF lib.alpha2 = Null
    THEN IF lib.alpha3 # Null
           THEN IF lib.alpha3 \in DOMAIN CODEMAP
                  THEN CODEMAP[lib.alpha3] ELSE "un"
           ELSE NoResult
  ELSE lib.alpha2

\* DetectLang without the table Lang.LD2M
DetectLangNoRewrite(text, lib) ==
  IF ~IsString(text) \/ IsBlank(text) THEN "en"
  ELSE LET textToDetect == IF Len(text) > MAX_DETECTION_LENGTH
                             THEN SubSeq(text, 1, MAX_DETECTION_LENGTH)
                             ELSE text
           language == detect(textToDetect, lib)
       IN IF language \in {NoResult, "un"} THEN "en" ELSE language

\* Translator.DetectLang(text)
DetectLang(text, lib) ==
  IF ~IsString(text) \/ IsBlank(text) THEN "en"
  ELSE LET textToDetect == IF Len(text) > MAX_DETECTION_LENGTH
                             THEN SubSeq(text, 1, MAX_DETECTION_LENGTH)
                             ELSE text
           language == detect(textToDetect, lib)
       IN IF language \in {NoResult, "un"} THEN "en"
          ELSE IF language \in LD THEN LD2M[language]
          ELSE language

\* the languages the classifier identifies in the models of the coordinator
DetectResults == {"en", "ja", BadCode}

-----------------------------------------------------------------------------
(* The coordinator's state as one record, so that the helper methods of    *)
(* class Translator can be composed in the order the code calls them.      *)
(*   ce     #cachedEngines       pm     #pendingMessages                   *)
(*   mid    #messageId           timer  #memoryReleaseTimer                *)
(*   ws     the workers          log    the promises of the messages       *)
(*   calls  the call frames                                                *)
(*   now    Date.now()           sweepAt the next tick of the sweep timer  *)
(*   timeouts  the armed timeouts of the cache entries                     *)

Here ==
  [ ce |-> cachedEngines, mid |-> messageId, pm |-> pendingMessages,
    timer |-> memoryReleaseTimer, ws |-> workers, log |-> msgLog,
    calls |-> calls, now |-> loop.now, sweepAt |-> loop.sweepAt,
    timeouts |-> loop.timeouts ]

\* the variables take the values of the record S
Becomes(S) ==
  /\ cachedEngines' = S.ce
  /\ messageId' = S.mid
  /\ pendingMessages' = S.pm
  /\ memoryReleaseTimer' = S.timer
  /\ loop' = [now |-> S.now, sweepAt |-> S.sweepAt, timeouts |-> S.timeouts]
  /\ workers' = S.ws
  /\ msgLog' = S.log
  /\ calls' = S.calls
  /\ UNCHANGED << autoRelease, workersPerPair, components, faults >>

Range(seq) == { seq[i] : i \in 1..Len(seq) }

\* Map.prototype.set / delete on #cachedEngines
MapSet(m, key, val) ==
  [k \in DOMAIN m \cup {key} |-> IF k = key THEN val ELSE m[k]]
MapDelete(m, key) == [k \in DOMAIN m \ {key} |-> m[k]]
EmptyMap == [k \in {} |-> 0]

\* worker.postMessage(msg): a message posted to a worker that has been
\* terminated is dropped
PostMessage(ws, w, msg) ==
  IF ws[w].state = "terminated" THEN ws
  ELSE [ws EXCEPT ![w].inbox = Append(@, msg)]

\* worker.terminate(): the thread stops and reads no further message
Terminate(ws, w) == [ws EXCEPT ![w].state = "terminated", ![w].inbox = <<>>]

TerminateAll(ws, pool) ==
  [w \in DOMAIN ws |-> IF w \in Range(pool) THEN Terminate(ws, w)[w] ELSE ws[w]]

\* clearInterval / setInterval on #memoryReleaseTimer
stopMemoryReleaseTimer(S) == [S EXCEPT !.timer = FALSE, !.sweepAt = 0]

\* startMemoryReleaseTimer
startMemoryReleaseTimer(S) ==
  IF S.timer \/ ~autoRelease THEN S
  ELSE [S EXCEPT !.timer = TRUE, !.sweepAt = S.now + CheckInterval]

\* the timeout that setTimeout made for the entry engineData of `key`; the
\* pool tells the entry objects of one key apart
TimeoutOf(key, engineData) ==
  [key |-> key, at |-> engineData.deadline, pool |-> engineData.workerPool]

\* clearTimeout(cachedEngine.timeoutId), guarded by `if (cachedEngine.timeoutId)`
clearTimeout(S, key) ==
  IF S.ce[key].timeoutId = "null" THEN S
  ELSE [S EXCEPT !.timeouts = @ \ {TimeoutOf(key, S.ce[key])},
                 !.ce[key].timeoutId = "cleared"]

\* engineData.timeoutId = setTimeout(() => removeEngine(key), ENGINE_CACHE_TIMEOUT_MS)
armTimeout(S, key) ==
  LET engineData == [S.ce[key] EXCEPT !.timeoutId = "armed",
                                      !.deadline = S.now + IdleTimeout]
  IN [S EXCEPT !.ce[key] = engineData,
               !.timeouts = @ \cup {TimeoutOf(key, engineData)}]

\* setEngineTimeout without the test of ENGINE_CACHE_ENABLE
setEngineTimeoutUnguarded(S, key) == armTimeout(S, key)

\* setEngineTimeout(engineData, languagePairKey), on the entry of `key`
setEngineTimeout(S, key) ==
  IF autoRelease THEN armTimeout(S, key) ELSE S

\* resetEngineTimeout(cachedEngine, languagePairKey)
resetEngineTimeout(S, key) ==
  LET cleared == clearTimeout(S, key)
  IN IF autoRelease
       THEN [armTimeout(cleared, key) EXCEPT !.ce[key].lastTimeoutReset = S.now]
       ELSE cleared

\* keepAlive(languagePairKey).  Date.now() - (lastTimeoutReset || 0) is the
\* time since the epoch while lastTimeoutReset is undefined (Undefined), and
\* that is more than any threshold
keepAlive(S, key) ==
  IF key \notin DOMAIN S.ce THEN S
  ELSE LET cachedEngine == S.ce[key]
           S1 == [S EXCEPT !.ce[key].lastUsedTime = S.now]
           shouldResetTimeout ==
              \/ cachedEngine.timeoutId = "null"
              \/ cachedEngine.lastTimeoutReset = Undefined
              \/ S.now - cachedEngine.lastTimeoutReset > ResetThreshold
       IN IF shouldResetTimeout THEN resetEngineTimeout(S1, key) ELSE S1

\* removeEngine without `this.#cachedEngines.delete(languagePairKey)`
removeEngineKeepsEntry(S, key) ==
  IF key \in DOMAIN S.ce
    THEN [clearTimeout(S, key) EXCEPT
            !.ws = TerminateAll(S.ws, S.ce[key].workerPool)]
    ELSE S

\* removeEngine(languagePairKey)
removeEngine(S, key) ==
  LET S1 == IF key \in DOMAIN S.ce
              THEN [clearTimeout(S, key) EXCEPT
                      !.ws = TerminateAll(S.ws, S.ce[key].workerPool)]
              ELSE S
      S2 == [S1 EXCEPT !.ce = MapDelete(S1.ce, key)]
  IN IF DOMAIN S2.ce = {} THEN stopMemoryReleaseTimer(S2) ELSE S2

\* the entries checkAndReleaseMemory finds idle
IdleKeys(S) ==
  { k \in DOMAIN S.ce : S.now - S.ce[k].lastUsedTime >= IdleTimeout }

RECURSIVE RemoveEngines(_, _)
RemoveEngines(S, keys) ==
  IF keys = {} THEN S
  ELSE LET k == CHOOSE x \in keys : TRUE
       IN RemoveEngines(removeEngine(S, k), keys \ {k})

\* checkAndReleaseMemory(); releaseUnusedModelMemory touches only #models
checkAndReleaseMemory(S) ==
  IF ~autoRelease \/ DOMAIN S.ce = {} THEN S
  ELSE RemoveEngines(S, IdleKeys(S))

-----------------------------------------------------------------------------
(* Call frames.  A frame is one public call: Translate(text, from, to), or *)
(* Preload(from, to) followed by translate(texts) on the handle it         *)
(* returned.                                                               *)
(*   pc      idle, loadModels (createWorkerPool awaits loadModels),        *)
(*           initWorkers (createWorkerPool awaits the workers),            *)
(*           hasHandle (Preload returned), awaitResults                    *)
(*           (translateWithWorker awaits the translations), returned, threw*)
(*   slots   the promises translateWithWorker waits for, by position       *)
(*   arrival the positions whose promise has been fulfilled, in the order  *)
(*           the responses came                                            *)
(*   ccLog   by position, the conversion types OpenCC.convert was called   *)
(*           with                                                          *)
(*   discards  the calls of discardTranslations() made on the handle       *)
(*   inFlight  the messages that were pending against the pair of the      *)
(*           handle when discardTranslations() was called on it            *)

IdleFrame ==
  [ kind |-> "none", pc |-> "idle", input |-> NoValue, argFrom |-> "", argTo |-> "",
    from |-> "", to |-> "", key |-> <<>>, pool |-> <<>>, texts |-> <<>>,
    slots |-> <<>>, arrival |-> <<>>, ccLog |-> <<>>, result |-> NoValue,
    err |-> "", discards |-> 0, inFlight |-> {} ]

BlankSlot == [st |-> "done", id |-> -1, val |-> <<>>]
PendingSlot(id) == [st |-> "pending", id |-> id, val |-> <<>>]
DoneSlot(id, val) == [st |-> "done", id |-> id, val |-> val]

\* one more call of OpenCC.convert on every text of frame c
LogConvert(ccLog, type) == [i \in 1..Len(ccLog) |-> Append(ccLog[i], type)]

\* selectWorker that leaves nextWorkerIndex as it is
selectWorkerStays(cachedEngine) == cachedEngine.nextWorkerIndex

\* selectWorker(cachedEngine): the index of the next worker, 0-based
selectWorker(cachedEngine) ==
  (cachedEngine.nextWorkerIndex + 1) % Len(cachedEngine.workerPool)

\* translateSingleText without its test for an empty or blank text
translateSingleTextNoBlankTest(S, key, c, pos, sourceText) ==
  LET id == S.mid
      cachedEngine == S.ce[key]
      worker == cachedEngine.workerPool[cachedEngine.nextWorkerIndex + 1]
  IN [S EXCEPT
        !.mid = id + 1,
        !.ce[key].nextWorkerIndex =
           (cachedEngine.nextWorkerIndex + 1) % Len(cachedEngine.workerPool),
        !.pm = @ \cup {id},
        !.ws = PostMessage(@, worker,
                 [type |-> "translation-request", messageId |-> id,
                  text |-> sourceText]),
        !.log = Append(@, [call |-> c, pos |-> pos, worker |-> worker,
                           key |-> key, src |-> sourceText, settles |-> 0,
                           outcome |-> "pending", val |-> <<>>]),
        !.calls[c].slots[pos] = PendingSlot(id)]

\* translateSingleText that reads #messageId without incrementing it
translateSingleTextSameId(S, key, c, pos, sourceText) ==
  IF IsBlank(sourceText)
    THEN [S EXCEPT !.calls[c].slots[pos] = BlankSlot]
    ELSE LET id == S.mid
             cachedEngine == S.ce[key]
             worker == cachedEngine.workerPool[cachedEngine.nextWorkerIndex + 1]
         IN [S EXCEPT
               !.ce[key].nextWorkerIndex = selectWorker(cachedEngine),
               !.pm = @ \cup {id},
               !.ws = PostMessage(@, worker,
                        [type |-> "translation-request", messageId |-> id,
                         text |-> sourceText]),
               !.log = Append(@, [call |-> c, pos |-> pos, worker |-> worker,
                                  key |-> key, src |-> sourceText, settles |-> 0,
                                  outcome |-> "pending", val |-> <<>>]),
               !.calls[c].slots[pos] = PendingSlot(id)]

\* translateSingleText(sourceText, cachedEngine, isHTML), called for position
\* pos of frame c on the pool cached under key
translateSingleText(S, key, c, pos, sourceText) ==
  IF IsBlank(sourceText)
    THEN [S EXCEPT !.calls[c].slots[pos] = BlankSlot]
    ELSE LET id == S.mid
             cachedEngine == S.ce[key]
             worker == cachedEngine.workerPool[cachedEngine.nextWorkerIndex + 1]
         IN [S EXCEPT
               !.mid = id + 1,
               !.ce[key].nextWorkerIndex = selectWorker(cachedEngine),
               !.pm = @ \cup {id},
               !.ws = PostMessage(@, worker,
                        [type |-> "translation-request", messageId |-> id,
                         text |-> sourceText]),
               !.log = Append(@, [call |-> c, pos |-> pos, worker |-> worker,
                                  key |-> key, src |-> sourceText, settles |-> 0,
                                  outcome |-> "pending", val |-> <<>>]),
               !.calls[c].slots[pos] = PendingSlot(id)]

\* sourceTexts.map(translateSingleText): the positions from i on, in order
RECURSIVE DispatchFrom(_, _, _, _, _)
DispatchFrom(S, key, c, texts, i) ==
  IF i > Len(texts) THEN S
  ELSE DispatchFrom(translateSingleText(S, key, c, i, texts[i]), key, c, texts, i + 1)

\* a list returned whatever was passed
ShapeAlwaysList(isTextArray, results) == Array(results)

\* isTextArray ? results : results[0]
Shape(isTextArray, results) ==
  IF isTextArray THEN Array(results) ELSE Scalar(results[1])

\* the end of executeTranslation and of Translate: the post-processing of
\* texts, then `return isTextArray ? result : result[0]`
ReturnTranslate(S, c, texts) ==
  LET f == S.calls[c]
      plan == analyzeTranslationPlan(f.from, f.to)
      post == plan.needPostProcess
      out == IF post THEN ConvertAll(texts, plan.postProcessType) ELSE texts
  IN [S EXCEPT !.calls[c].pc = "returned",
               !.calls[c].ccLog =
                  IF post THEN LogConvert(@, plan.postProcessType) ELSE @,
               !.calls[c].result = Shape(f.input.arr, out)]

\* the promises of frame c have all been fulfilled: translateWithWorker
\* returns its results, to executeTranslation or to the caller of the handle
FinishTranslation(S, c) ==
  LET f == S.calls[c]
      results == [i \in 1..Len(f.slots) |-> f.slots[i].val]
  IN IF f.kind = "Translate"
       THEN ReturnTranslate(S, c, results)
       ELSE [S EXCEPT !.calls[c].pc = "returned",
                      !.calls[c].result = Shape(f.input.arr, results)]

AllDone(slots) == \A i \in 1..Len(slots) : slots[i].st = "done"

\* translateWithWorker(languagePairKey, texts, isHTML) up to its await
translateWithWorker(S, key, c, texts) ==
  IF key \notin DOMAIN S.ce
    THEN [S EXCEPT !.calls[c].pc = "threw", !.calls[c].err = "engine-not-found"]
    ELSE LET S1 == keepAlive(S, key)
             S2 == [S1 EXCEPT !.calls[c].pc = "awaitResults",
                              !.calls[c].key = key,
                              !.calls[c].slots = [i \in 1..Len(texts) |-> BlankSlot]]
             S3 == DispatchFrom(S2, key, c, texts, 1)
         IN IF AllDone(S3.calls[c].slots) THEN FinishTranslation(S3, c) ELSE S3

\* the response fulfils the oldest promise the call still waits for, instead
\* of the promise stored under the response's messageId
ResolveInArrivalOrder(S, id, targetText) ==
  LET m == S.log[id + 1]
      c == m.call
      slots == S.calls[c].slots
      S1 == [S EXCEPT !.log[id + 1].settles = @ + 1,
                      !.log[id + 1].outcome = IF @ = "pending" THEN "resolved" ELSE @,
                      !.log[id + 1].val = targetText,
                      !.pm = @ \ {id}]
  IN IF S.calls[c].pc = "awaitResults" /\ m.outcome = "pending"
       THEN LET pos == CHOOSE i \in 1..Len(slots) :
                         /\ slots[i].st = "pending"
                         /\ \A j \in 1..(i - 1) : slots[j].st # "pending"
                S2 == [S1 EXCEPT !.calls[c].slots[pos] = DoneSlot(id, targetText),
                                 !.calls[c].arrival = Append(@, pos)]
            IN IF AllDone(S2.calls[c].slots) THEN FinishTranslation(S2, c) ELSE S2
       ELSE S1

\* pendingMessage.resolve(targetText) and the delete that follows it
Resolve(S, id, targetText) ==
  LET m == S.log[id + 1]
      c == m.call
      S1 == [S EXCEPT !.log[id + 1].settles = @ + 1,
                      !.log[id + 1].outcome = IF @ = "pending" THEN "resolved" ELSE @,
                      !.log[id + 1].val = targetText,
                      !.pm = @ \ {id}]
  IN IF S.calls[c].pc = "awaitResults" /\ m.outcome = "pending"
       THEN LET S2 == [S1 EXCEPT !.calls[c].slots[m.pos] = DoneSlot(id, targetText),
                                     !.calls[c].arrival = Append(@, m.pos)]
            IN IF AllDone(S2.calls[c].slots) THEN FinishTranslation(S2, c) ELSE S2
       ELSE S1

\* reject(error) for every message id of ids, and their delete: Promise.all
\* of a frame that waits for one of them rejects, and the call throws
RejectAll(S, ids, error) ==
  [S EXCEPT
     !.log = [i \in 1..Len(S.log) |->
                IF (i - 1) \in ids
                  THEN [S.log[i] EXCEPT !.settles = @ + 1,
                          !.outcome = IF @ = "pending" THEN "rejected" ELSE @]
                  ELSE S.log[i]],
     !.pm = @ \ ids,
     !.calls = [c \in DOMAIN S.calls |->
                  IF /\ S.calls[c].pc = "awaitResults"
                     /\ \E i \in 1..Len(S.calls[c].slots) :
                          /\ S.calls[c].slots[i].st = "pending"
                          /\ S.calls[c].slots[i].id \in ids
                    THEN [S.calls[c] EXCEPT !.pc = "threw", !.err = error]
                    ELSE S.calls[c]]]

\* what follows `await this.Preload(...)`: Translate calls engine.translate,
\* the caller of Preload holds the handle
AfterPreload(S, c, key) ==
  IF S.calls[c].kind = "Translate"
    THEN translateWithWorker(S, key, c, S.calls[c].texts)
    ELSE [S EXCEPT !.calls[c].pc = "hasHandle", !.calls[c].key = key]

\* Preload without the lookup in #cachedEngines
PreloadAlwaysBuilds(S, c, fromLang, toLang) ==
  [S EXCEPT !.calls[c].pc = "loadModels",
            !.calls[c].key = getLanguagePairKey(fromLang, toLang)]

\* Preload(fromLang, toLang) up to its first suspension
Preload(S, c, fromLang, toLang) ==
  LET languagePairKey == getLanguagePairKey(fromLang, toLang)
  IN IF languagePairKey \in DOMAIN S.ce
       THEN AfterPreload(keepAlive(S, languagePairKey), c,
                         languagePairKey)
       ELSE [S EXCEPT !.calls[c].pc = "loadModels",
                      !.calls[c].key = languagePairKey]

\* the rest of Preload once createWorkerPool has returned the pool of frame c
\* (setEngineTimeout acts on engineData just before the entry is put in the
\* map; here it acts on the entry just after, within the same step)
PreloadFinish(S, c) ==
  LET f == S.calls[c]
      engineData == [workerPool |-> f.pool, nextWorkerIndex |-> 0,
                     timeoutId |-> "null", deadline |-> 0,
                     lastUsedTime |-> S.now, lastTimeoutReset |-> Undefined]
      S1 == setEngineTimeout(
              [S EXCEPT !.ce = MapSet(S.ce, f.key, engineData)], f.key)
  IN AfterPreload(startMemoryReleaseTimer(S1), c, f.key)

\* performComplexCCTranslation(texts, plan)
performComplexCCTranslation(texts, plan) ==
  ConvertAll(ConvertAll(texts, plan.pureCCComplexType1), plan.pureCCComplexType2)

\* executeTranslation(texts, fromLang, toLang, isHTML) up to its first
\* suspension on the coordinator's state
executeTranslation(S, c, texts, fromLang, toLang) ==
  LET plan == analyzeTranslationPlan(fromLang, toLang)
      pre == plan.needPreProcess
      texts1 == IF pre THEN ConvertAll(texts, plan.preProcessType) ELSE texts
      log0 == [i \in 1..Len(texts) |-> <<>>]
      log1 == IF pre THEN LogConvert(log0, plan.preProcessType) ELSE log0
      S1 == [S EXCEPT !.calls[c].texts = texts1, !.calls[c].ccLog = log1]
  IN IF plan.pureCC /\ plan.pureCCComplex
       THEN ReturnTranslate(
              [S1 EXCEPT !.calls[c].ccLog =
                  LogConvert(LogConvert(@, plan.pureCCComplexType1),
                             plan.pureCCComplexType2)],
              c, performComplexCCTranslation(texts1, plan))
     ELSE IF plan.pureCC /\ plan.needPreProcess
       THEN ReturnTranslate(
              [S1 EXCEPT !.calls[c].ccLog = LogConvert(@, plan.preProcessType)],
              c, ConvertAll(texts1, plan.preProcessType))
     ELSE IF fromLang # toLang
       THEN Preload(S1, c, fromLang, toLang)
     ELSE ReturnTranslate(S1, c, texts1)

\* processLanguages without the replacement of aliases
processLanguagesNoAlias(firstText, fromLang, toLang, detected) ==
  LET processedFromLang == IF fromLang = "auto"
                             THEN DetectLang(firstText, Identifies(detected)) ELSE fromLang
  IN [ error |-> validateLanguageCodes(processedFromLang, toLang),
       processedFromLang |-> processedFromLang,
       processedToLang |-> toLang ]

\* processLanguages(firstText, fromLang, toLang): the error, or the pair
processLanguages(firstText, fromLang, toLang, detected) ==
  LET processedFromLang == IF fromLang = "auto"
                             THEN DetectLang(firstText, Identifies(detected)) ELSE fromLang
      check == validateLanguageCodes(processedFromLang, toLang)
  IN [ error |-> check,
       processedFromLang |-> MALIAS(processedFromLang),
       processedToLang |-> MALIAS(toLang) ]

\* Translate(text, fromLang, toLang, isHTML) up to its first suspension
Translate(S, c, text, fromLang, toLang, detected) ==
  LET texts == text.items
      S0 == [S EXCEPT !.calls[c] =
               [IdleFrame EXCEPT !.kind = "Translate", !.input = text,
                                 !.argFrom = fromLang, !.argTo = toLang]]
  IN IF Len(texts) < 1
       THEN [S0 EXCEPT !.calls[c].pc = "returned",
                       !.calls[c].result =
                          IF text.arr THEN Array(<<>>) ELSE Scalar(<<>>)]
     ELSE LET p == processLanguages(texts[1], fromLang, toLang, detected)
              S1 == [S0 EXCEPT !.calls[c].from = p.processedFromLang,
                               !.calls[c].to = p.processedToLang]
          IN IF p.error # "ok"
               THEN [S0 EXCEPT !.calls[c].pc = "threw", !.calls[c].err = p.error]
             ELSE IF p.processedFromLang = p.processedToLang
               THEN [S1 EXCEPT !.calls[c].pc = "returned",
                               !.calls[c].result = text]
             ELSE executeTranslation(S1, c, texts, p.processedFromLang,
                                     p.processedToLang)

-----------------------------------------------------------------------------
(* Workers.  A worker record holds the state of the thread (ready,         *)
(* initialized, terminated), the messages on their way to it               *)
(* (inbox) and from it (outbox), and on the coordinator's side the         *)
(* listener initializeWorker has on it: awaitReady, awaitInit, resolved,   *)
(* rejected or spent (a once-listener used up by another message).         *)

\* the key of a model in #models: `${fromLang}_${toLang}`
ModelKey(fromLang, toLang) == <<fromLang, toLang>>

\* an entry of #models that is not there
NoPayload == <<>>

\* loadRequiredModels(fromLang, toLang, needMiddle): the keys it sets in #models
loadRequiredModels(fromLang, toLang, middle) ==
  IF middle THEN {ModelKey(fromLang, "en"), ModelKey("en", toLang)}
  ELSE {ModelKey(fromLang, toLang)}

\* prepareModelPayloads that always returns the model of the pair itself
prepareModelPayloadsDirect(models, fromLang, toLang, middle) ==
  << IF ModelKey(fromLang, toLang) \in models
       THEN ModelKey(fromLang, toLang) ELSE NoPayload >>

\* prepareModelPayloads(fromLang, toLang, needMiddle), with `models` the keys
\* of #models
prepareModelPayloads(models, fromLang, toLang, middle) ==
  LET payload(key) == IF key \in models THEN key ELSE NoPayload
  IN IF middle
       THEN << payload(ModelKey(fromLang, "en")), payload(ModelKey("en", toLang)) >>
       ELSE << payload(ModelKey(fromLang, toLang)) >>

\* new Worker(workerPath): the worker script builds its TranslationWorker
\* and posts WORKER_READY; nothing else happens in the thread before its
\* first message, so the model starts it with that message on its way.
\* `payloads` is the modelPayloads argument of createWorker, and `models` is
\* Engine.languageTranslationModels of the worker's engine
NewWorker(c, fromLang, toLang, modelPayloads) ==
  [ owner |-> c, from |-> fromLang, to |-> toLang, state |-> "ready",
    inbox |-> <<>>, outbox |-> << [type |-> "worker-ready"] >>,
    listener |-> "awaitReady", payloads |-> modelPayloads, models |-> <<>> ]

Alive(w) == workers[w].state # "terminated"

-----------------------------------------------------------------------------
(* The public calls.  Frames are taken in the order the calls are made.    *)

NextFrame(c) ==
  /\ calls[c].pc = "idle"
  /\ \A d \in DOMAIN calls : d < c => calls[d].pc # "idle"

\* Translator.Translate(text, fromLang, toLang) is called
TranslateCall(c, text, fromLang, toLang, detected) ==
  /\ NextFrame(c)
  /\ Becomes(Translate(Here, c, text, fromLang, toLang, detected))
  /\ UNCHANGED shutdown

\* Translator.Preload(fromLang, toLang) is called
PreloadCall(c, fromLang, toLang) ==
  /\ NextFrame(c)
  /\ Becomes(Preload([Here EXCEPT !.calls[c] =
                          [IdleFrame EXCEPT !.kind = "Preload",
                             !.argFrom = fromLang, !.argTo = toLang,
                             !.from = fromLang, !.to = toLang]],
                       c, fromLang, toLang))
  /\ UNCHANGED shutdown

\* translate(texts) is called on the handle Preload returned to frame c
HandleTranslateCall(c, text) ==
  /\ calls[c].pc = "hasHandle"
  /\ Becomes(translateWithWorker([Here EXCEPT !.calls[c].input = text],
                                   calls[c].key, c, text.items))
  /\ UNCHANGED shutdown

\* discardTranslations() is called on the handle Preload returned to frame c
DiscardTranslations(c) ==
  /\ calls[c].kind = "Preload"
  /\ calls[c].pc \in {"hasHandle", "awaitResults"}
  /\ calls[c].discards < MaxDiscards
  /\ calls' = [calls EXCEPT
                 ![c].discards = @ + 1,
                 ![c].inFlight = { i \in pendingMessages :
                                     msgLog[i + 1].key = calls[c].key }]
  /\ workers' = [w \in DOMAIN workers |->
                   IF /\ calls[c].key \in DOMAIN cachedEngines
                      /\ w \in Range(cachedEngines[calls[c].key].workerPool)
                     THEN PostMessage(workers, w,
                            [type |-> "discard-translation-queue"])[w]
                     ELSE workers[w]]
  /\ UNCHANGED << cachedEngines, messageId, pendingMessages, memoryReleaseTimer, loop,
                  autoRelease, workersPerPair, components, shutdown, msgLog, faults >>

\* createWorkerPool: loadModels has loaded the models; the workers are created
LoadModelsDone(c) ==
  /\ calls[c].pc = "loadModels"
  /\ ModelsAvailable(calls[c].key[1], calls[c].key[2])
  /\ LET n == Len(workers)
         pool == [i \in 1..workersPerPair |-> n + i]
         fromLang == calls[c].key[1]
         toLang == calls[c].key[2]
         middle == needMiddle(fromLang, toLang)
         modelPayloads ==
           prepareModelPayloads(loadRequiredModels(fromLang, toLang, middle),
                                fromLang, toLang, middle)
     IN /\ workers' = workers \o
             [i \in 1..workersPerPair |->
                NewWorker(c, fromLang, toLang, modelPayloads)]
        /\ calls' = [calls EXCEPT ![c].pc = "initWorkers", ![c].pool = pool]
  /\ UNCHANGED << cachedEngines, messageId, pendingMessages, memoryReleaseTimer, loop,
                  autoRelease, workersPerPair, components, shutdown, msgLog, faults >>

\* a failure happens that the code does not cause itself
Fault ==
  /\ faults < MaxFaults
  /\ faults' = faults + 1

\* a failure of loadModels that also empties #cachedEngines
LoadModelsFailClearsCache(c) ==
  /\ calls[c].pc = "loadModels"
  /\ IF ModelsAvailable(calls[c].key[1], calls[c].key[2])
       THEN Fault ELSE UNCHANGED faults
  /\ calls' = [calls EXCEPT ![c].pc = "threw", ![c].err = "create-failed"]
  /\ cachedEngines' = EmptyMap
  /\ UNCHANGED << messageId, pendingMessages, memoryReleaseTimer, loop,
                  autoRelease, workersPerPair, components, workers, shutdown, msgLog >>

\* createWorkerPool: loadModels throws, because Models.getModel has no such
\* model or because the catalogue, the disk or the network fails; Preload
\* rethrows
LoadModelsFail(c) ==
  /\ calls[c].pc = "loadModels"
  /\ IF ModelsAvailable(calls[c].key[1], calls[c].key[2])
       THEN Fault ELSE UNCHANGED faults
  /\ calls' = [calls EXCEPT ![c].pc = "threw", ![c].err = "create-failed"]
  /\ UNCHANGED << cachedEngines, messageId, pendingMessages, memoryReleaseTimer, loop,
                  autoRelease, workersPerPair, components, workers, shutdown, msgLog >>

\* initializeWorker: the timer of WORKER_INIT_TIMEOUT_MS fires before the
\* worker has said it is ready
WorkerInitTimeout(w) ==
  /\ w \in DOMAIN workers
  /\ workers[w].listener = "awaitReady"
  /\ Fault
  /\ workers' = [workers EXCEPT ![w].listener = "rejected"]
  /\ calls' = [calls EXCEPT ![workers[w].owner] =
                 IF @.pc = "initWorkers" /\ w \in Range(@.pool)
                   THEN [@ EXCEPT !.pc = "threw", !.err = "create-failed"]
                   ELSE @]
  /\ UNCHANGED << cachedEngines, messageId, pendingMessages, memoryReleaseTimer, loop,
                  autoRelease, workersPerPair, components, shutdown, msgLog >>

-----------------------------------------------------------------------------
(* The worker threads (src/js/worker.js).                                  *)

WorkerUnchanged ==
  UNCHANGED << cachedEngines, messageId, pendingMessages, memoryReleaseTimer, loop,
               autoRelease, workersPerPair, components, calls, shutdown, msgLog >>

\* handleMessage(data) for the oldest message in the worker's port, to the
\* point where its answer is posted; ok says whether the engine succeeds
WorkerReply(wk, msg, ok) ==
  CASE msg.type = "initialize" ->
         IF wk.state = "initialized"
           THEN [type |-> "translation-error", messageId |-> -1]
         ELSE IF ok THEN [type |-> "initialization-success"]
         ELSE [type |-> "initialization-error"]
    [] msg.type = "translation-request" ->
         IF wk.state # "initialized" \/ ~ok
           THEN [type |-> "translation-error", messageId |-> msg.messageId]
         ELSE IF Len(wk.models) > 2
           THEN [type |-> "translation-error", messageId |-> msg.messageId]
           ELSE [type |-> "translation-response", messageId |-> msg.messageId,
                 targetText |-> EngineTranslate(wk.to, msg.text),
                 via |-> IF Len(wk.models) = 1 THEN "single" ELSE "pivot"]
    [] OTHER -> [type |-> "translations-discarded"]

WorkerHandle(w, ok) ==
  /\ w \in DOMAIN workers
  /\ workers[w].state \in {"ready", "initialized"}
  /\ workers[w].inbox # <<>>
  /\ IF ok THEN UNCHANGED faults ELSE Fault
  /\ LET msg == Head(workers[w].inbox)
     IN workers' = [workers EXCEPT
          ![w].inbox = Tail(@),
          ![w].state = IF msg.type = "initialize" /\ ok THEN "initialized" ELSE @,
          ![w].models = IF msg.type = "initialize" /\ ok /\ workers[w].state = "ready"
                          THEN msg.modelPayloads ELSE @,
          ![w].outbox = Append(@, WorkerReply(workers[w], msg, ok))]
  /\ WorkerUnchanged

\* an uncaught error while the worker handles a message ends the thread: the
\* coordinator will receive the worker's "error" event
WorkerCrash(w) ==
  /\ w \in DOMAIN workers
  /\ Alive(w)
  /\ workers[w].inbox # <<>>
  /\ Fault
  /\ workers' = [workers EXCEPT ![w].state = "terminated", ![w].inbox = <<>>,
                                ![w].outbox = Append(@, [type |-> "error"])]
  /\ WorkerUnchanged

-----------------------------------------------------------------------------
(* The coordinator receives an event of worker w.                          *)

\* the once-listeners of initializeWorker see the message msg of worker w
InitListener(S, w, msg) ==
  LET wk == S.ws[w]
      c == wk.owner
      building == S.calls[c].pc = "initWorkers" /\ w \in Range(S.calls[c].pool)
  IN CASE wk.listener = "awaitReady" /\ msg.type = "worker-ready" ->
            [S EXCEPT !.ws = [PostMessage(S.ws, w,
                                [type |-> "initialize",
                                 modelPayloads |-> wk.payloads])
                                EXCEPT ![w].listener = "awaitInit"]]
       [] wk.listener = "awaitReady" /\ msg.type # "worker-ready" ->
            [S EXCEPT !.ws[w].listener = "spent"]
       [] wk.listener = "awaitInit" /\ msg.type = "initialization-success" ->
            LET S1 == [S EXCEPT !.ws[w].listener = "resolved"]
            IN IF building /\ \A v \in Range(S1.calls[c].pool) :
                                S1.ws[v].listener = "resolved"
                 THEN PreloadFinish(S1, c)
                 ELSE S1
       [] wk.listener = "awaitInit" /\ msg.type = "initialization-error" ->
            [S EXCEPT !.ws[w].listener = "rejected",
                      !.calls[c] = IF building
                                     THEN [@ EXCEPT !.pc = "threw",
                                                    !.err = "create-failed"]
                                     ELSE @]
       [] wk.listener = "awaitInit" ->
            [S EXCEPT !.ws[w].listener = "spent"]
       [] OTHER -> S

\* handleTranslationResponse(data, languagePairKey)
handleTranslationResponse(S, msg, languagePairKey) ==
  LET S1 == IF msg.messageId \in S.pm
              THEN Resolve(S, msg.messageId, msg.targetText)
              ELSE S
  IN keepAlive(S1, languagePairKey)

\* handleTranslationError rejecting every pending message
handleTranslationErrorRejectsAll(S, msg) ==
  RejectAll(S, S.pm, "translation-error")

\* handleTranslationError(data)
handleTranslationError(S, msg) ==
  IF msg.messageId \in S.pm
    THEN RejectAll(S, {msg.messageId}, "translation-error")
    ELSE S

\* handleTranslationsDiscarded()
handleTranslationsDiscarded(S) == RejectAll(S, S.pm, "discarded")

\* handleWorkerError without the call of removeEngine
handleWorkerErrorKeepsEngine(S, fromLang, toLang) ==
  RejectAll(S, S.pm, "worker-error")

\* handleWorkerError(error, fromLang, toLang)
handleWorkerError(S, fromLang, toLang) ==
  LET S1 == removeEngine(S, getLanguagePairKey(fromLang, toLang))
  IN RejectAll(S1, S1.pm, "worker-error")

\* handleWorkerMessage(data, fromLang, toLang)
handleWorkerMessage(S, msg, fromLang, toLang) ==
  CASE msg.type = "translation-response" ->
         handleTranslationResponse(S, msg, getLanguagePairKey(fromLang, toLang))
    [] msg.type = "translation-error" -> handleTranslationError(S, msg)
    [] msg.type = "translations-discarded" -> handleTranslationsDiscarded(S)
    [] OTHER -> S

MainReceive(w) ==
  /\ w \in DOMAIN workers
  /\ workers[w].outbox # <<>>
  /\ LET msg == Head(workers[w].outbox)
         S0 == [Here EXCEPT !.ws[w].outbox = Tail(@)]
         fromLang == workers[w].from
         toLang == workers[w].to
     IN Becomes(IF msg.type = "error"
                    THEN handleWorkerError(S0, fromLang, toLang)
                    ELSE InitListener(
                           handleWorkerMessage(S0, msg, fromLang, toLang),
                           w, msg))
  /\ UNCHANGED shutdown

-----------------------------------------------------------------------------
(* Shutdown().                                                             *)

\* Shutdown() up to `await Promise.all(shutdownPromises)`; with no worker
\* to wait for it goes on to the end
ShutdownCall ==
  /\ shutdown = "idle"
  /\ LET S1 == stopMemoryReleaseTimer(Here)
         S2 == RejectAll(S1, S1.pm, "closed")
         pooled == UNION { Range(S2.ce[k].workerPool) : k \in DOMAIN S2.ce }
         S3 == [S2 EXCEPT
                  !.ce = [k \in DOMAIN S2.ce |->
                            [S2.ce[k] EXCEPT !.timeoutId =
                               IF @ = "null" THEN @ ELSE "cleared"]],
                  !.timeouts = @ \ { TimeoutOf(k, S2.ce[k]) : k \in DOMAIN S2.ce },
                  !.ws = [w \in DOMAIN S2.ws |->
                            IF w \in pooled THEN Terminate(S2.ws, w)[w]
                            ELSE S2.ws[w]]]
     IN IF pooled = {}
          THEN Becomes([S3 EXCEPT !.ce = EmptyMap]) /\ shutdown' = "returned"
          ELSE Becomes(S3) /\ shutdown' = "terminating"

\* the workers have exited: `this.#cachedEngines.clear()`, and Shutdown returns
ShutdownReturn ==
  /\ shutdown = "terminating"
  /\ cachedEngines' = EmptyMap
  /\ shutdown' = "returned"
  /\ UNCHANGED << messageId, pendingMessages, memoryReleaseTimer, loop, autoRelease,
                  workersPerPair, components, workers, calls, msgLog, faults >>

-----------------------------------------------------------------------------
(* Time.  The clock advances by one unit at a time, and a timer that is    *)
(* due runs before the clock advances again: callbacks of the event loop   *)
(* are late by far less than a unit (a minute).  worker.terminate()        *)
(* likewise resolves within the unit, so the clock stands still while      *)
(* Shutdown awaits it.                                                     *)

TimerDue ==
  \/ \E t \in loop.timeouts : t.at <= loop.now
  \/ memoryReleaseTimer /\ loop.sweepAt <= loop.now

Tick ==
  /\ loop.now < MaxTime
  /\ ~TimerDue
  /\ shutdown # "terminating"
  /\ loop' = [loop EXCEPT !.now = @ + 1]
  /\ UNCHANGED << cachedEngines, messageId, pendingMessages, memoryReleaseTimer,
                  autoRelease, workersPerPair, components, workers, calls, shutdown, msgLog,
                  faults >>

\* the callback of an entry's timeout: `this.removeEngine(languagePairKey)`
TimeoutFires(t) ==
  /\ t \in loop.timeouts
  /\ t.at <= loop.now
  /\ Becomes(removeEngine([Here EXCEPT !.timeouts = @ \ {t}], t.key))
  /\ UNCHANGED shutdown

\* the callback of the sweep timer: `this.checkAndReleaseMemory()`
SweeperFires ==
  /\ memoryReleaseTimer
  /\ loop.sweepAt <= loop.now
  /\ LET S1 == checkAndReleaseMemory(Here)
     IN Becomes(IF S1.timer
                  THEN [S1 EXCEPT !.sweepAt = loop.sweepAt + CheckInterval]
                  ELSE S1)
  /\ UNCHANGED shutdown

-----------------------------------------------------------------------------
(* The model store (src/js/models.js) and the downloader it uses (class     *)
(* Downloader, src/js/worker.js:875-1053), for one language pair.  The      *)
(* record `store` holds what the store sees and the position of one call of *)
(* getModel:                                                                *)
(*   catalog     the file kinds getModelInfo finds records for              *)
(*   disk        per kind, the file in MODELS_DIR: absent, valid (its       *)
(*               SHA-256 is the catalogue's) or corrupt                     *)
(*   downloaded  the pair is in MODELS_FLAGS.downloaded                     *)
(*   offline     Config.OFFLINE                                             *)
(*   pc          idle, download, returned, threw                            *)
(*   tasks       downloadTasks not yet finished                             *)
(*   results     downloadResults: the kind and the status of each task      *)
(*   retries     the variable of that name in download()                    *)
(*   downloadedFiles   the kinds of the object getModelPaths returns        *)
(*   bundle      the kinds of payload.languageModelFiles                    *)
(* and two records of what has happened: `requests`, the number of GET      *)
(* requests made per kind, and `verified`, the kinds for which              *)
(* verifyChecksum has returned true during the call.                        *)

\* the coordinator's variables, which the components leave alone
coordinator == << cachedEngines, messageId, pendingMessages, memoryReleaseTimer,
                  loop, autoRelease, workersPerPair, workers, calls, shutdown,
                  msgLog, faults >>

\* getModelInfo: the keys of modelFiles, in the order of Object.entries
FileKinds == << "model", "lex", "vocab", "srcvocab", "trgvocab" >>

\* the catalogues of the model: a pair with one vocabulary, a pair with two,
\* and a pair the catalogue has no record of
Catalogs == { {"model", "lex", "vocab"},
              {"model", "lex", "srcvocab", "trgvocab"},
              {} }

\* Downloader.constructor: options.maxRetries || 3
maxRetries == 3

\* the kinds of `kinds`, in the order of FileKinds
RECURSIVE InOrder(_, _)
InOrder(kinds, i) ==
  IF i > Len(FileKinds) THEN <<>>
  ELSE (IF FileKinds[i] \in kinds THEN <<FileKinds[i]>> ELSE <<>>)
         \o InOrder(kinds, i + 1)

\* exists(filePath)
exists(st, kind) == st.disk[kind] # "absent"

\* Downloader.verifyChecksum(filePath, expectedHash, "sha256")
verifyChecksum(st, kind) == st.disk[kind] = "valid"

\* getModelPaths: isValid() of the validation loop
isValid(st, kind) == exists(st, kind) /\ verifyChecksum(st, kind)

\* getModel: the object getModelPaths has returned is read into the payload
getModel(st) ==
  [st EXCEPT !.pc = "returned", !.bundle = st.downloadedFiles]

\* getModelPaths: the throw statements
Throw(st, error) == [st EXCEPT !.pc = "threw", !.err = error]

\* getModelPaths after batchDownload has returned downloadResults
afterBatchDownload(st) ==
  LET allDownloadsSuccessful == \A i \in 1..Len(st.results) :
                                   st.results[i].status = "success"
      st1 == IF allDownloadsSuccessful
               THEN [st EXCEPT !.downloaded = TRUE] ELSE st
  IN IF st1.downloadedFiles = {}
       THEN Throw(st1, "no-valid-files")
       ELSE getModel(st1)

\* getModelPaths(fromLang, toLang) up to batchDownload, then getModel
getModelPaths(st) ==
  LET found == { k \in st.catalog : exists(st, k) }
      valid == { k \in st.catalog : isValid(st, k) }
      needsDownload == st.catalog \ valid
  IN IF st.downloaded /\ found # {}
       THEN getModel([st EXCEPT !.downloadedFiles = found])
     ELSE IF st.catalog = {} THEN Throw(st, "no-model-files")
     ELSE IF needsDownload # {} /\ st.offline THEN Throw(st, "offline")
     ELSE IF needsDownload = {}
       THEN getModel([st EXCEPT !.downloaded = TRUE,
                                !.downloadedFiles = valid, !.verified = valid])
     ELSE [st EXCEPT !.pc = "download",
                     !.tasks = InOrder(needsDownload, 1),
                     !.downloadedFiles = valid, !.verified = valid]

\* batchDownload: the download of the first task has ended with `status`
nextDownload(st, status) ==
  LET kind == Head(st.tasks)
      st1 == [st EXCEPT !.tasks = Tail(@), !.retries = 0,
                        !.results = Append(@, [kind |-> kind, status |-> status]),
                        !.downloadedFiles =
                           IF status = "success" THEN @ \cup {kind} ELSE @]
  IN IF st1.tasks = <<>> THEN afterBatchDownload(st1) ELSE st1

\* download() with a loop that goes round once more
downloadOnceMore(st, ok) ==
  LET kind == Head(st.tasks)
      st1 == [st EXCEPT !.requests[kind] = @ + 1]
  IN IF ok
       THEN nextDownload([st1 EXCEPT !.disk[kind] = "valid",
                                     !.verified = @ \cup {kind}], "success")
     ELSE LET st2 == [st1 EXCEPT !.disk[kind] = "absent", !.retries = @ + 1]
          IN IF st2.retries <= maxRetries + 1 THEN st2
             ELSE nextDownload(st2, "failed")

\* Downloader.download(url, destination, options): one pass of its loop for
\* the first task.  The request, the write and the checksum succeed (ok), or
\* one of them fails and the file is deleted
download(st, ok) ==
  LET kind == Head(st.tasks)
      st1 == [st EXCEPT !.requests[kind] = @ + 1]
  IN IF ok
       THEN nextDownload([st1 EXCEPT !.disk[kind] = "valid",
                                     !.verified = @ \cup {kind}], "success")
     ELSE LET st2 == [st1 EXCEPT !.disk[kind] = "absent", !.retries = @ + 1]
          IN IF st2.retries <= maxRetries THEN st2
             ELSE nextDownload(st2, "failed")

\* the store before a call, on a catalogue, a disk and a flag file
StoreWith(catalog, disk, downloaded, offline) ==
  [ catalog |-> catalog, disk |-> disk, downloaded |-> downloaded,
    offline |-> offline, pc |-> "idle", tasks |-> <<>>, results |-> <<>>,
    retries |-> 0, downloadedFiles |-> {}, bundle |-> {}, err |-> "none",
    requests |-> [k \in Range(FileKinds) |-> 0], verified |-> {} ]

StoreAtRest ==
  store = StoreWith({}, [k \in Range(FileKinds) |-> "absent"], FALSE, FALSE)

\* Models.getModel(fromLang, toLang) is called
GetModelCall ==
  /\ store.pc = "idle"
  /\ store' = getModelPaths(store)
  /\ UNCHANGED << coordinator, detector, queue, transfer, thread, loader >>

\* one attempt of the download in progress ends
DownloadAttempt(ok) ==
  /\ store.pc = "download"
  /\ store' = download(store, ok)
  /\ UNCHANGED << coordinator, detector, queue, transfer, thread, loader >>

-----------------------------------------------------------------------------
(* A call of DetectLang: `detector` holds the argument, what the library    *)
(* does during the call, and the value the call returns.                    *)

\* the longest argument of DetectLang in the model
MaxDetect == 3

\* the arguments: the strings of at most MaxDetect characters made of
\* whitespace and one glyph, and a value that is not a string
DetectArgs ==
  UNION { [1..n -> {WS, Glyph(1, "lat")}] : n \in 0..MaxDetect }
    \cup {NotAString}

\* what the library does: it fails to load, identify() throws, or identify()
\* returns an alpha2 and an alpha3, each possibly null
Libraries ==
  { Library("throws", "ok", Null, Null), Library("ok", "throws", Null, Null) }
    \cup { Library("ok", "ok", a2, a3) :
             a2 \in {Null, "en", "ja", "zh"},
             a3 \in {Null, "yue", "wuu", "sco", "xxx"} }

DetectorWith(text, lib) ==
  [pc |-> "idle", text |-> text, lib |-> lib, result |-> "none"]

DetectorAtRest == detector = DetectorWith(<<>>, Identifies("en"))

\* Translator.DetectLang(text) is called and returns
DetectLangCall ==
  /\ detector.pc = "idle"
  /\ detector' = [detector EXCEPT
                    !.pc = "returned",
                    !.result = DetectLang(detector.text, detector.lib)]
  /\ UNCHANGED << coordinator, store, queue, transfer, thread, loader >>

-----------------------------------------------------------------------------
(* The work queue of one worker thread (class WorkQueue,                    *)
(* src/js/worker.js:89-296) and the event loop it runs on.  A message of    *)
(* the port and a callback of setImmediate are handled one at a time, and   *)
(* the promise continuations each of them releases (the microtasks) all     *)
(* run before the next one is handled.  The record `queue` holds            *)
(*   tasks           #tasksByTranslationId: the ids, in insertion order     *)
(*   isRunning, isWorkCancelled, runImmediately    the fields of the class  *)
(*   run             the invocation of #run that holds #isRunning: where it *)
(*                   is suspended (none, yield, task), whether lastTimeout  *)
(*                   is null (first), and batchCount                        *)
(*   loops           the invocations of #run that are inside the loop       *)
(*   micro           the promise continuations that are due, oldest first   *)
(*   immediates      the callbacks of setImmediate that are due             *)
(*   running         the tasks that have been called and have not settled   *)
(* and the history: `submitted` (the ids passed to runTask, in order),      *)
(* `started` (the tasks called), `delivered` (what the worker has posted),  *)
(* `removedOne` and `removedAll` (the ids cancelTask and cancelWork have    *)
(* taken out of the queue) and the numbers of cancellations.                *)

\* the number of translation requests one worker receives
MaxTasks == 4
\* the number of cancel-single-translation and of discard-translation-queue
\* messages one worker receives
MaxCancelOne == 1
MaxCancelAll == 2

\* #RUN_IMMEDIATELY_COUNT (20) and #TASK_BATCH_SIZE (5), scaled to MaxTasks
RUN_IMMEDIATELY_COUNT == 1
TASK_BATCH_SIZE == 2

\* the sequence without the element x
Without(seq, x) == SelectSeq(seq, LAMBDA y : y # x)

\* a promise continuation
Microtask(k, id, status) == [k |-> k, id |-> id, status |-> status]

\* the rejections cancelWork makes, in the order of the queue
RejectEach(ids) ==
  [i \in 1..Len(ids) |-> Microtask("awaiter", ids[i], "cancelled")]

\* #run: the end of the loop and the finally block
finish(q) ==
  [q EXCEPT !.isRunning = FALSE, !.run.pc = "none", !.loops = @ - 1]

\* await this.#yield()
yield(q) ==
  [q EXCEPT !.run.pc = "yield", !.immediates = Append(@, "run")]

\* #run, lines 222-239, taking the newest entry of the map
takeNewest(q, ok) ==
  IF q.isWorkCancelled \/ q.tasks = <<>> THEN finish(q)
  ELSE LET translationId == q.tasks[Len(q.tasks)]
       IN [q EXCEPT !.tasks = Without(@, translationId),
                    !.run.pc = "task",
                    !.run.batchCount = @ + 1,
                    !.running = @ \cup {translationId},
                    !.started = Append(@, translationId),
                    !.micro = Append(@, Microtask("settled", translationId,
                                IF ok THEN "run-ok" ELSE "run-failed"))]

\* #run, lines 222-239: the second test of the cancel flag, then the oldest
\* entry of the map is deleted and its task is called
take(q, ok) ==
  IF q.isWorkCancelled \/ q.tasks = <<>> THEN finish(q)
  ELSE LET translationId == Head(q.tasks)
       IN [q EXCEPT !.tasks = Tail(@),
                    !.run.pc = "task",
                    !.run.batchCount = @ + 1,
                    !.running = @ \cup {translationId},
                    !.started = Append(@, translationId),
                    !.micro = Append(@, Microtask("settled", translationId,
                                IF ok THEN "run-ok" ELSE "run-failed"))]

\* #run that yields for the time budget only, not for the size of the batch
drainUnbatched(q, slow, ok) ==
  IF q.tasks = <<>> \/ q.isWorkCancelled THEN finish(q)
  ELSE IF q.run.first THEN yield([q EXCEPT !.run.first = FALSE])
  ELSE IF slow
    THEN yield([q EXCEPT !.run.batchCount = 0])
  ELSE take(q, ok)

\* #run, lines 193-239: from the test of the while loop to the next
\* suspension.  slow: the time budget is used up; ok: the task succeeds
drain(q, slow, ok) ==
  IF q.tasks = <<>> \/ q.isWorkCancelled THEN finish(q)
  ELSE IF q.run.first THEN yield([q EXCEPT !.run.first = FALSE])
  ELSE IF slow \/ q.run.batchCount >= TASK_BATCH_SIZE
    THEN yield([q EXCEPT !.run.batchCount = 0])
  ELSE take(q, ok)

\* #run() without the test of #isRunning
runUnguarded(q) ==
  drain([q EXCEPT !.isRunning = TRUE, !.loops = @ + 1,
                  !.run = [pc |-> "none", first |-> TRUE, batchCount |-> 0]],
        FALSE, TRUE)

\* #run(), to its first suspension (lastTimeout is null, so that neither the
\* time budget nor a task is reached before the first yield)
run(q) ==
  IF q.isRunning THEN q
  ELSE drain([q EXCEPT !.isRunning = TRUE, !.loops = @ + 1,
                       !.run = [pc |-> "none", first |-> TRUE, batchCount |-> 0]],
             FALSE, TRUE)

\* runTask(translationId, task)
runTask(q, translationId) ==
  LET q1 == [q EXCEPT !.submitted = Append(@, translationId)]
  IN IF q1.runImmediately > 0
       THEN [q1 EXCEPT !.runImmediately = @ - 1,
                       !.micro = Append(@, Microtask("call", translationId, "none"))]
       ELSE run([q1 EXCEPT !.tasks = Append(@, translationId)])

\* cancelTask(translationId)
cancelTask(q, translationId) ==
  IF translationId \in Range(q.tasks)
    THEN [q EXCEPT !.tasks = Without(@, translationId),
                   !.removedOne = @ \cup {translationId},
                   !.cancelOnes = @ + 1]
    ELSE [q EXCEPT !.cancelOnes = @ + 1]

\* cancelWork() that clears the map and rejects nothing
cancelWorkSilent(q) ==
  [q EXCEPT !.isWorkCancelled = TRUE,
            !.tasks = <<>>,
            !.removedAll = @ \cup Range(q.tasks),
            !.immediates = Append(@, "cancelWork"),
            !.cancelAlls = @ + 1]

\* cancelWork(), to its yield
cancelWork(q) ==
  [q EXCEPT !.isWorkCancelled = TRUE,
            !.tasks = <<>>,
            !.removedAll = @ \cup Range(q.tasks),
            !.micro = @ \o RejectEach(q.tasks),
            !.immediates = Append(@, "cancelWork"),
            !.cancelAlls = @ + 1]

\* handleTranslationRequest after `await this.workQueue.runTask(...)`: the
\* response or the error is posted
post(q, id, status) ==
  [q EXCEPT !.delivered = Append(@, [id |-> id, status |-> status])]

\* the oldest promise continuation runs
microtask(q, slow, ok) ==
  LET m == Head(q.micro)
      q1 == [q EXCEPT !.micro = Tail(@)]
  IN CASE m.k = "call" ->
            \* Promise.resolve().then(() => task())
            [q1 EXCEPT !.running = @ \cup {m.id},
                       !.started = Append(@, m.id),
                       !.micro = Append(@, Microtask("settled", m.id,
                                   IF ok THEN "ok" ELSE "failed"))]
       [] m.k = "settled" /\ m.status \in {"ok", "failed"} ->
            \* the promise runTask returned settles with the task's
            [q1 EXCEPT !.running = @ \ {m.id},
                       !.micro = Append(@, Microtask("awaiter", m.id,
                                   IF m.status = "ok" THEN "response" ELSE "error"))]
       [] m.k = "settled" /\ m.status = "run-ok" ->
            \* #run after `await task()`, lines 241-247
            LET q2 == [q1 EXCEPT !.running = @ \ {m.id}]
            IN IF q2.isWorkCancelled THEN finish(q2)
               ELSE drain([q2 EXCEPT !.micro =
                              Append(@, Microtask("awaiter", m.id, "response"))],
                          slow, ok)
       [] m.k = "settled" /\ m.status = "run-failed" ->
            \* #run, the catch of lines 249-252
            drain([q1 EXCEPT !.running = @ \ {m.id},
                             !.micro =
                               Append(@, Microtask("awaiter", m.id, "error"))],
                  slow, ok)
       [] OTHER -> post(q1, m.id, m.status)

\* the oldest callback of setImmediate runs: #run goes on after its yield, or
\* cancelWork goes on after its own and handleDiscardQueue posts
\* TRANSLATIONS_DISCARDED
immediate(q, ok) ==
  LET q1 == [q EXCEPT !.immediates = Tail(@)]
  IN IF Head(q.immediates) = "run" THEN take(q1, ok)
     ELSE post([q1 EXCEPT !.isWorkCancelled = FALSE], 0, "discarded")

QueueAtRest ==
  queue = [ tasks |-> <<>>, isRunning |-> FALSE, isWorkCancelled |-> FALSE,
            runImmediately |-> RUN_IMMEDIATELY_COUNT,
            run |-> [pc |-> "none", first |-> TRUE, batchCount |-> 0],
            loops |-> 0, micro |-> <<>>, immediates |-> <<>>, running |-> {},
            submitted |-> <<>>, started |-> <<>>, delivered |-> <<>>,
            removedOne |-> {}, removedAll |-> {},
            cancelOnes |-> 0, cancelAlls |-> 0 ]

\* the worker handles a message only when no promise continuation is due
MessageTurn == queue.micro = <<>>

\* handleMessage: a translation-request arrives; its translationId is new
ReceiveTranslationRequest ==
  /\ MessageTurn
  /\ Len(queue.submitted) < MaxTasks
  /\ queue' = runTask(queue, Len(queue.submitted) + 1)
  /\ UNCHANGED << coordinator, store, detector, transfer, thread, loader >>

\* handleMessage: cancel-single-translation arrives for a request made before
ReceiveCancelTranslation(translationId) ==
  /\ MessageTurn
  /\ queue.cancelOnes < MaxCancelOne
  /\ translationId \in Range(queue.submitted)
  /\ queue' = cancelTask(queue, translationId)
  /\ UNCHANGED << coordinator, store, detector, transfer, thread, loader >>

\* handleMessage: discard-translation-queue arrives
ReceiveDiscardQueue ==
  /\ MessageTurn
  /\ queue.cancelAlls < MaxCancelAll
  /\ queue' = cancelWork(queue)
  /\ UNCHANGED << coordinator, store, detector, transfer, thread, loader >>

\* the event loop runs the oldest callback of setImmediate
RunImmediate(ok) ==
  /\ MessageTurn
  /\ queue.immediates # <<>>
  /\ queue' = immediate(queue, ok)
  /\ UNCHANGED << coordinator, store, detector, transfer, thread, loader >>

\* the event loop runs the oldest promise continuation
RunMicrotask(slow, ok) ==
  /\ queue.micro # <<>>
  /\ queue' = microtask(queue, slow, ok)
  /\ UNCHANGED << coordinator, store, detector, transfer, thread, loader >>

-----------------------------------------------------------------------------
(* One call of Downloader.download(url, destination, options)              *)
(* (src/js/worker.js:911-996), pass by pass.  The record `transfer` holds   *)
(*   file      the file at the destination: absent, valid (its checksum is *)
(*             the expected one), corrupt (complete, another checksum) or  *)
(*             partial (the write stopped half way)                        *)
(*   checksum  options.checksum is given                                   *)
(*   offline   Config.OFFLINE                                              *)
(*   pc        idle, delay (the wait before a retry), request (the request *)
(*             is out), written (the writer has closed), returned, threw   *)
(*   retries   the variable of that name                                   *)
(* and the history `left`: for each time the loop went round again, the    *)
(* file the catch block found at the destination and the file it kept.     *)

\* what a pass can bring: the server's file, another file, a write that
\* fails half way, or no response
Outcomes == {"valid", "corrupt", "partial", "refused"}

\* download(): the catch block that keeps the file it finds
retryKeepsFile(t) ==
  LET t1 == [t EXCEPT !.retries = @ + 1]
  IN IF t1.retries <= maxRetries
       THEN [t1 EXCEPT !.pc = "delay",
                       !.left = Append(@, [found |-> t.file, kept |-> t1.file])]
       ELSE [t1 EXCEPT !.pc = "threw"]

\* download(): the catch block and the test of the loop, lines 984-995
retry(t) ==
  LET t1 == [t EXCEPT !.retries = @ + 1, !.file = "absent"]
  IN IF t1.retries <= maxRetries
       THEN [t1 EXCEPT !.pc = "delay",
                       !.left = Append(@, [found |-> t.file, kept |-> t1.file])]
       ELSE [t1 EXCEPT !.pc = "threw"]

\* download() up to its loop
startDownload(t) ==
  IF t.offline THEN [t EXCEPT !.pc = "threw"]
  ELSE [t EXCEPT !.pc = "request", !.retries = 0]

\* one pass up to the end of the stream: axios throws, or createWriteStream
\* truncates the file and the response is written to it
request(t, outcome) ==
  IF outcome = "refused" THEN retry(t)
  ELSE [t EXCEPT !.pc = "written", !.file = outcome]

\* the pass after the stream: the writer's error, or the checksum when one
\* is expected, then the return
settle(t) ==
  IF t.file = "partial" THEN retry(t)
  ELSE IF t.checksum /\ t.file # "valid" THEN retry(t)
  ELSE [t EXCEPT !.pc = "returned"]

TransferWith(file, checksum, offline) ==
  [ file |-> file, checksum |-> checksum, offline |-> offline, pc |-> "idle",
    retries |-> 0, left |-> <<>> ]

TransferAtRest == transfer = TransferWith("absent", TRUE, FALSE)

\* Downloader.download is called
DownloadCall ==
  /\ transfer.pc = "idle"
  /\ transfer' = startDownload(transfer)
  /\ UNCHANGED << coordinator, store, detector, queue, thread, loader >>

\* the wait before a retry is over, line 931
DownloadDelay ==
  /\ transfer.pc = "delay"
  /\ transfer' = [transfer EXCEPT !.pc = "request"]
  /\ UNCHANGED << coordinator, store, detector, queue, thread, loader >>

\* the request of a pass ends
DownloadRequest(outcome) ==
  /\ transfer.pc = "request"
  /\ transfer' = request(transfer, outcome)
  /\ UNCHANGED << coordinator, store, detector, queue, thread, loader >>

\* the stream of a pass has ended
DownloadSettle ==
  /\ transfer.pc = "written"
  /\ transfer' = settle(transfer)
  /\ UNCHANGED << coordinator, store, detector, queue, thread, loader >>

-----------------------------------------------------------------------------
(* The TranslationWorker of one worker thread (src/js/worker.js:301-528),   *)
(* as it answers whatever arrives at its port.  The record `thread` holds   *)
(*   isInitialized  the field of that name                                  *)
(*   engine         this.engine: 0 for null, else the number of the message *)
(*                  whose handler constructed the Engine now in the field   *)
(*   built          the number of times `new Engine` has returned           *)
(*   loading        the InitRequests whose handler awaits InitWasm()        *)
(*   tasks          the TranslationRequests whose handler awaits runTask    *)
(*   posted         the messages posted to the parent port, oldest first    *)
(*   received       the number of messages received; the n-th message is    *)
(*                  given the messageId n                                   *)

\* sendErrorResponse(error, data.messageId) of setupMessageHandlers' catch;
\* an InitRequest has no messageId (Undefined)
sendErrorResponse(th, id) ==
  [th EXCEPT !.posted = Append(@, [type |-> "translation-error",
                                   messageId |-> id])]

\* handleMessage for an InitRequest with its parameters, up to the await of
\* InitWasm()
handleInitialization(th, n) ==
  IF th.isInitialized THEN sendErrorResponse(th, Undefined)
  ELSE [th EXCEPT !.loading = @ \cup {n}]

\* handleInitialization after InitWasm(): ok says whether InitWasm resolved
\* and the Engine constructor returned
finishInitialization(th, n, ok) ==
  IF ok
    THEN [th EXCEPT !.loading = @ \ {n}, !.engine = n, !.built = @ + 1,
                    !.isInitialized = TRUE,
                    !.posted = Append(@, [type |-> "initialization-success",
                                          messageId |-> Undefined])]
    ELSE [th EXCEPT !.loading = @ \ {n},
                    !.posted = Append(@, [type |-> "initialization-error",
                                          messageId |-> Undefined])]

\* handleMessage for a TranslationRequest, up to the await of runTask
handleTranslationRequest(th, n) ==
  IF ~th.isInitialized THEN sendErrorResponse(th, n)
  ELSE [th EXCEPT !.tasks = @ \cup {n}]

\* handleTranslationRequest after runTask: the response, or the error of
\* its catch block
finishTranslation(th, n, ok) ==
  [th EXCEPT !.tasks = @ \ {n},
             !.posted = Append(@, [type |-> IF ok THEN "translation-response"
                                                  ELSE "translation-error",
                                   messageId |-> n])]

ThreadWith(isInitialized) ==
  [ isInitialized |-> isInitialized, engine |-> 0, built |-> 0, loading |-> {},
    tasks |-> {}, posted |-> <<>>, received |-> 0 ]

\* new TranslationWorker(), lines 302-307
ThreadAtRest == thread = ThreadWith(FALSE)

\* the port delivers an InitRequest
ReceiveInit ==
  /\ thread.received < MaxMessages
  /\ LET n == thread.received + 1
     IN thread' = handleInitialization([thread EXCEPT !.received = n], n)
  /\ UNCHANGED << coordinator, store, detector, queue, transfer, loader >>

\* the port delivers a TranslationRequest
ReceiveTranslation ==
  /\ thread.received < MaxMessages
  /\ LET n == thread.received + 1
     IN thread' = handleTranslationRequest([thread EXCEPT !.received = n], n)
  /\ UNCHANGED << coordinator, store, detector, queue, transfer, loader >>

\* InitWasm() settles for the InitRequest n
WasmLoaded(n, ok) ==
  /\ n \in thread.loading
  /\ thread' = finishInitialization(thread, n, ok)
  /\ UNCHANGED << coordinator, store, detector, queue, transfer, loader >>

\* the work queue settles the task of the TranslationRequest n
TaskSettled(n, ok) ==
  /\ n \in thread.tasks
  /\ thread' = finishTranslation(thread, n, ok)
  /\ UNCHANGED << coordinator, store, detector, queue, transfer, loader >>

-----------------------------------------------------------------------------
(* The models in memory: Translator.#models, loadModels and the release of *)
(* unused models by the sweep (src/js/translator.js:225-262, 546-572,      *)
(* 615-718).  The record `loader` holds                                     *)
(*   init        #models is an object (FALSE: it is still null)             *)
(*   resets      the number of times `this.#models = {}` has run            *)
(*   models      the keys of #models                                        *)
(*   downloaded  MODELS_FLAGS.downloaded                                    *)
(*   cached      the keys of #cachedEngines                                 *)
(*   loads       per call of Preload that missed the cache: its pair, the  *)
(*               list loadModels got from getDownloadedModels, the models  *)
(*               whose getModel is outstanding, the payloads passed to the *)
(*               workers, and its position: idle, init (Models.init),      *)
(*               downloaded (loadDownloadedModels), required                *)
(*               (loadRequiredModels), workers (the InitRequests are       *)
(*               posted), done, threw                                      *)

\* the pairs Preload is called for: three with a model of their own and one
\* translated through English
LoadPairs ==
  { <<"en", "zh-Hans">>, <<"zh-Hans", "en">>, <<"en", "ja">>, <<"zh-Hans", "ja">> }

\* the models a previous run can have downloaded
DownloadableModels ==
  { p \in LoadPairs : ~needMiddle(p[1], p[2]) }

LoadIds == 1..MaxLoads

IdleLoad ==
  [ pc |-> "idle", pair |-> <<>>, list |-> {}, waiting |-> {}, payloads |-> <<>> ]

\* getActiveModels()
getActiveModels(cached) ==
  UNION { {ModelKey(k[1], k[2])} \cup
          (IF needMiddle(k[1], k[2])
             THEN {ModelKey(k[1], "en"), ModelKey("en", k[2])} ELSE {}) :
          k \in cached }

\* releaseUnusedModelMemory()
releaseUnusedModelMemory(L) ==
  [L EXCEPT !.models = @ \cap getActiveModels(L.cached)]

\* createWorkerPool after loadModels: prepareModelPayloads, and the workers
\* are created with the payloads
createWorkers(L, f) ==
  LET pair == L.loads[f].pair
  IN [L EXCEPT !.loads[f].pc = "workers",
               !.loads[f].payloads =
                  prepareModelPayloads(L.models, pair[1], pair[2],
                                       needMiddle(pair[1], pair[2]))]

\* loadModels after loadDownloadedModels: lines 627-629
afterDownloadedModels(L, f) ==
  IF L.loads[f].pair \in L.loads[f].list
    THEN createWorkers(L, f)
    ELSE [L EXCEPT !.loads[f].pc = "required"]

\* loadModels from getDownloadedModels on: lines 623-624, and
\* loadDownloadedModels up to its await
loadDownloadedModels(L, f) ==
  LET downloadedModels == L.downloaded
      L1 == [L EXCEPT !.loads[f].list = downloadedModels]
      missing == downloadedModels \ L.models
  IN IF missing = {} THEN afterDownloadedModels(L1, f)
     ELSE [L1 EXCEPT !.loads[f].pc = "downloaded", !.loads[f].waiting = missing]

LoaderWith(downloaded) ==
  [ init |-> FALSE, resets |-> 0, models |-> {}, downloaded |-> downloaded,
    cached |-> {},
    loads |-> [f \in LoadIds |-> IdleLoad] ]

LoaderAtRest == loader = LoaderWith({})

LoaderUnchanged ==
  UNCHANGED << coordinator, store, detector, queue, transfer, thread >>

\* Preload(fromLang, toLang) misses the cache: createWorkerPool calls
\* loadModels
LoadModelsCall(f, pair) ==
  /\ loader.loads[f].pc = "idle"
  /\ \A g \in LoadIds : g < f => loader.loads[g].pc # "idle"
  /\ pair \notin loader.cached
  /\ LET L == [loader EXCEPT !.loads[f].pair = pair]
     IN loader' = IF L.init THEN loadDownloadedModels(L, f)
                  ELSE [L EXCEPT !.loads[f].pc = "init"]
  /\ LoaderUnchanged

\* Models.init() has resolved: `this.#models = {}`, and loadModels goes on
ModelsInitDone(f) ==
  /\ loader.loads[f].pc = "init"
  /\ loader' = loadDownloadedModels([loader EXCEPT !.init = TRUE, !.models = {},
                                                    !.resets = @ + 1], f)
  /\ LoaderUnchanged

\* getModel has resolved for one of the downloaded models: it is assigned,
\* and with the last of them loadModels goes on
DownloadedModelLoaded(f, model) ==
  /\ loader.loads[f].pc = "downloaded"
  /\ model \in loader.loads[f].waiting
  /\ LET L == [loader EXCEPT !.models = @ \cup {model},
                             !.loads[f].waiting = @ \ {model}]
     IN loader' = IF L.loads[f].waiting = {} THEN afterDownloadedModels(L, f)
                  ELSE L
  /\ LoaderUnchanged

\* loadRequiredModels has its models: they are assigned, getModel having
\* recorded them as downloaded, and createWorkerPool goes on
RequiredModelsLoaded(f) ==
  /\ loader.loads[f].pc = "required"
  /\ LET pair == loader.loads[f].pair
         required == loadRequiredModels(pair[1], pair[2], needMiddle(pair[1], pair[2]))
     IN loader' = createWorkers([loader EXCEPT !.models = @ \cup required,
                                               !.downloaded = @ \cup required], f)
  /\ LoaderUnchanged

\* the workers have answered their InitRequest: Preload caches the pool, or
\* throws when the engine could not load a payload
WorkersInitialized(f) ==
  /\ loader.loads[f].pc = "workers"
  /\ loader' = IF \E i \in 1..Len(loader.loads[f].payloads) :
                    loader.loads[f].payloads[i] = NoPayload
                 THEN [loader EXCEPT !.loads[f].pc = "threw"]
                 ELSE [loader EXCEPT !.loads[f].pc = "done",
                                     !.cached = @ \cup {loader.loads[f].pair}]
  /\ LoaderUnchanged

\* the sweep finds the entries `idle` unused for the timeout: it removes
\* them and releases the models no cached pair uses
SweepReleases(idle) ==
  /\ idle # {}
  /\ idle \subseteq loader.cached
  /\ loader' = releaseUnusedModelMemory([loader EXCEPT !.cached = @ \ idle])
  /\ LoaderUnchanged

\* the timeout of an entry fires: removeEngine, which releases no model
TimeoutRemoves(key) ==
  /\ key \in loader.cached
  /\ loader' = [loader EXCEPT !.cached = @ \ {key}]
  /\ LoaderUnchanged

ComponentsAtRest ==
  /\ StoreAtRest
  /\ DetectorAtRest
  /\ QueueAtRest
  /\ TransferAtRest
  /\ ThreadAtRest
  /\ LoaderAtRest

-----------------------------------------------------------------------------
(* The initial state: the class has just been loaded.                      *)
(* ENGINE_CACHE_ENABLE is Config.AUTO_RELEASE and ENGINE_CACHE_TIMEOUT_    *)
(* MINUTES is Config.RELEASE_INTERVAL; src/js/config.js defines neither,   *)
(* so both are undefined and no idle deadline is ever armed.               *)

Frames == 1..MaxCalls

InitCommon ==
  /\ cachedEngines = EmptyMap
  /\ messageId = 0
  /\ pendingMessages = {}
  /\ memoryReleaseTimer = FALSE
  /\ loop = [now |-> 0, sweepAt |-> 0, timeouts |-> {}]
  /\ autoRelease = FALSE
  /\ workers = <<>>
  /\ calls = [c \in Frames |-> IdleFrame]
  /\ shutdown = "idle"
  /\ msgLog = <<>>
  /\ faults = 0
  /\ ComponentsAtRest

\* the events of the workers and of the coordinator's timers and ports
Events ==
  \/ \E c \in Frames : LoadModelsDone(c)
  \/ \E c \in Frames : LoadModelsFail(c)
  \/ \E w \in DOMAIN workers : WorkerInitTimeout(w)
  \/ \E w \in DOMAIN workers : \E ok \in BOOLEAN : WorkerHandle(w, ok)
  \/ \E w \in DOMAIN workers : WorkerCrash(w)
  \/ \E w \in DOMAIN workers : MainReceive(w)
  \/ \E c \in Frames : DiscardTranslations(c)
  \/ ShutdownCall
  \/ ShutdownReturn

(* Spec: concurrent callers.  MaxCalls calls are in progress at once, on   *)
(* two language pairs that have a direct model, with one text each.        *)

ConcurrentPairs == { <<"en", "zh-Hans">>, <<"zh-Hans", "en">> }

ConcurrentTexts(code) == { Scalar(<<Glyph(1, FormOf(code))>>) }

Init ==
  /\ InitCommon
  /\ workersPerPair = 1

Next ==
  \/ \E c \in Frames : \E p \in ConcurrentPairs : \E text \in ConcurrentTexts(p[1]) :
       TranslateCall(c, text, p[1], p[2], "en")
  \/ \E c \in Frames : \E p \in ConcurrentPairs : PreloadCall(c, p[1], p[2])
  \/ \E c \in Frames :
       /\ calls[c].pc = "hasHandle"
       /\ \E text \in ConcurrentTexts(calls[c].key[1]) : HandleTranslateCall(c, text)
  \/ Events

Spec == Init /\ [][Next]_vars

(* SpecPipe: one caller and every input.  One call of Translate with any   *)
(* codes and any text or list of texts, or one Preload and a call of       *)
(* translate on its handle, on pools of two workers.                       *)

PipeWorkers == 2

\* the string or the list of strings a caller passes
TextArgs(code) ==
  { Scalar(t) : t \in SampleTexts(code) } \cup { Array(l) : l \in TextLists(code) }

InitPipe ==
  /\ InitCommon
  /\ workersPerPair = PipeWorkers

NextPipe ==
  \/ /\ calls[1].pc = "idle"
     /\ \E fromLang \in FromArgs : \E toLang \in ToArgs :
          \E detected \in DetectResults :
            \E text \in TextArgs(IF fromLang = "auto" THEN detected ELSE fromLang) :
              TranslateCall(1, text, fromLang, toLang, detected)
  \/ \E p \in ConcurrentPairs : PreloadCall(1, p[1], p[2])
  \/ /\ calls[1].pc = "hasHandle"
     /\ \E text \in TextArgs(calls[1].key[1]) : HandleTranslateCall(1, text)
  \/ Events

SpecPipe == InitPipe /\ [][NextPipe]_vars

(* SpecEvict: one caller and the clock.  A Preload, a call of translate on *)
(* its handle, Shutdown, and the timers of the idle eviction, with the     *)
(* eviction switched on or off.  ENGINE_CACHE_ENABLE is Config.AUTO_RELEASE *)
(* and ENGINE_CACHE_TIMEOUT_MINUTES is Config.RELEASE_INTERVAL (README.md: *)
(* MTRAN_AUTO_RELEASE, default true, and MTRAN_RELEASE_INTERVAL, default   *)
(* 30); the Config class of src/js/config.js has neither property, which   *)
(* is the case autoRelease = FALSE.                                        *)

InitEvict ==
  /\ cachedEngines = EmptyMap
  /\ messageId = 0
  /\ pendingMessages = {}
  /\ memoryReleaseTimer = FALSE
  /\ loop = [now |-> 0, sweepAt |-> 0, timeouts |-> {}]
  /\ autoRelease \in BOOLEAN
  /\ workersPerPair = 1
  /\ workers = <<>>
  /\ calls = [c \in Frames |-> IdleFrame]
  /\ shutdown = "idle"
  /\ msgLog = <<>>
  /\ faults = 0
  /\ ComponentsAtRest

NextEvict ==
  \/ \E p \in ConcurrentPairs : PreloadCall(1, p[1], p[2])
  \/ /\ calls[1].pc = "hasHandle"
     /\ \E text \in ConcurrentTexts(calls[1].key[1]) : HandleTranslateCall(1, text)
  \/ Events
  \/ \E t \in loop.timeouts : TimeoutFires(t)
  \/ SweeperFires
  \/ Tick

SpecEvict == InitEvict /\ [][NextEvict]_vars

(* SpecSweep: two callers and the clock, with the eviction switched on.    *)
(* Each caller preloads a pair; workers fail, Shutdown is called and the   *)
(* timers of the idle eviction run.                                        *)

InitSweep ==
  /\ cachedEngines = EmptyMap
  /\ messageId = 0
  /\ pendingMessages = {}
  /\ memoryReleaseTimer = FALSE
  /\ loop = [now |-> 0, sweepAt |-> 0, timeouts |-> {}]
  /\ autoRelease = TRUE
  /\ workersPerPair = 1
  /\ workers = <<>>
  /\ calls = [c \in Frames |-> IdleFrame]
  /\ shutdown = "idle"
  /\ msgLog = <<>>
  /\ faults = 0
  /\ ComponentsAtRest

NextSweep ==
  \/ \E c \in Frames : \E p \in ConcurrentPairs : PreloadCall(c, p[1], p[2])
  \/ \E c \in Frames : LoadModelsDone(c)
  \/ \E w \in DOMAIN workers : WorkerHandle(w, TRUE)
  \/ \E w \in DOMAIN workers : WorkerCrash(w)
  \/ \E w \in DOMAIN workers : MainReceive(w)
  \/ ShutdownCall
  \/ ShutdownReturn
  \/ \E t \in loop.timeouts : TimeoutFires(t)
  \/ SweeperFires
  \/ Tick

SpecSweep == InitSweep /\ [][NextSweep]_vars

(* SpecReuse: two callers, one after the other, on pools of two workers.   *)
(* The second caller calls Preload once the first has its handle.          *)

HasReturned(c) ==
  \/ calls[c].pc \in {"hasHandle", "awaitResults", "returned"}
  \/ calls[c].pc = "threw" /\ calls[c].err # "create-failed"

NextReuse ==
  \/ \E p \in ConcurrentPairs : PreloadCall(1, p[1], p[2])
  \/ /\ HasReturned(1)
     /\ \E p \in ConcurrentPairs : PreloadCall(2, p[1], p[2])
  \/ \E c \in Frames :
       /\ calls[c].pc = "hasHandle"
       /\ \E text \in ConcurrentTexts(calls[c].key[1]) : HandleTranslateCall(c, text)
  \/ Events

SpecReuse == InitPipe /\ [][NextReuse]_vars

(* SpecWrap: one caller that preloads a pair and passes one text with any  *)
(* whitespace around it to the handle.                                     *)

NextWrap ==
  \/ \E p \in ConcurrentPairs : PreloadCall(1, p[1], p[2])
  \/ /\ calls[1].pc = "hasHandle"
     /\ \E text \in PaddedTexts(calls[1].key[1]) :
          HandleTranslateCall(1, Scalar(text))
  \/ Events

SpecWrap == Init /\ [][NextWrap]_vars

(* SpecRound: two callers of one pair, one after the other, on a pool of   *)
(* two workers; each passes a list of texts to its handle.  A worker may   *)
(* crash, after which the second caller builds the pool anew.              *)

RoundPair == <<"en", "zh-Hans">>

\* the lists of MaxTexts texts, each of them blank or not
RoundTexts(code) ==
  { Array(l) : l \in [1..MaxTexts -> {<<WS>>, <<Glyph(1, FormOf(code))>>}] }

NextRound ==
  \/ PreloadCall(1, RoundPair[1], RoundPair[2])
  \/ /\ HasReturned(1)
     /\ PreloadCall(2, RoundPair[1], RoundPair[2])
  \/ \E c \in Frames :
       /\ calls[c].pc = "hasHandle"
       /\ \E text \in RoundTexts(calls[c].key[1]) : HandleTranslateCall(c, text)
  \/ \E c \in Frames : LoadModelsDone(c)
  \/ \E w \in DOMAIN workers : WorkerHandle(w, TRUE)
  \/ \E w \in DOMAIN workers : WorkerCrash(w)
  \/ \E w \in DOMAIN workers : MainReceive(w)

SpecRound == InitPipe /\ [][NextRound]_vars

(* SpecStore: one call of getModel, for every catalogue of the model,     *)
(* every state of the files on the disk, with the pair flagged as          *)
(* downloaded or not, on line or off line.                                 *)

InitCoordinator ==
  /\ cachedEngines = EmptyMap
  /\ messageId = 0
  /\ pendingMessages = {}
  /\ memoryReleaseTimer = FALSE
  /\ loop = [now |-> 0, sweepAt |-> 0, timeouts |-> {}]
  /\ autoRelease = FALSE
  /\ workersPerPair = 1
  /\ workers = <<>>
  /\ calls = [c \in Frames |-> IdleFrame]
  /\ shutdown = "idle"
  /\ msgLog = <<>>
  /\ faults = 0

InitStore ==
  /\ InitCoordinator
  /\ LoaderAtRest
  /\ ThreadAtRest
  /\ TransferAtRest
  /\ DetectorAtRest
  /\ QueueAtRest
  /\ \E catalog \in Catalogs :
       \E disk \in [Range(FileKinds) -> {"absent", "valid", "corrupt"}] :
         \E downloaded \in BOOLEAN : \E offline \in BOOLEAN :
           /\ \A k \in Range(FileKinds) \ catalog : disk[k] = "absent"
           /\ store = StoreWith(catalog, disk, downloaded, offline)

NextStore ==
  \/ GetModelCall
  \/ \E ok \in BOOLEAN : DownloadAttempt(ok)

SpecStore == InitStore /\ [][NextStore]_vars

\* every request of a download ends (the request has a timeout)
SpecStoreFair == SpecStore /\ WF_vars(NextStore)

(* SpecDetect: one call of DetectLang, for every argument and every        *)
(* behaviour of the library.                                               *)

InitDetect ==
  /\ InitCoordinator
  /\ LoaderAtRest
  /\ ThreadAtRest
  /\ TransferAtRest
  /\ StoreAtRest
  /\ QueueAtRest
  /\ \E text \in DetectArgs : \E lib \in Libraries :
       detector = DetectorWith(text, lib)

NextDetect == DetectLangCall

SpecDetect == InitDetect /\ [][NextDetect]_vars

(* SpecQueue: the work queue of one worker, which receives MaxTasks        *)
(* translation requests and the two kinds of cancellation in any order.    *)

InitQueue ==
  /\ InitCoordinator
  /\ LoaderAtRest
  /\ ThreadAtRest
  /\ TransferAtRest
  /\ StoreAtRest
  /\ DetectorAtRest
  /\ QueueAtRest

NextQueue ==
  \/ ReceiveTranslationRequest
  \/ \E translationId \in 1..MaxTasks : ReceiveCancelTranslation(translationId)
  \/ ReceiveDiscardQueue
  \/ \E ok \in BOOLEAN : RunImmediate(ok)
  \/ \E slow \in BOOLEAN : \E ok \in BOOLEAN : RunMicrotask(slow, ok)

SpecQueue == InitQueue /\ [][NextQueue]_vars

(* SpecTransfer: one call of download, with or without a checksum, on any  *)
(* file at the destination.                                                *)

InitTransfer ==
  /\ InitCoordinator
  /\ LoaderAtRest
  /\ ThreadAtRest
  /\ StoreAtRest
  /\ DetectorAtRest
  /\ QueueAtRest
  /\ \E file \in {"absent", "valid", "corrupt", "partial"} :
       \E checksum \in BOOLEAN : \E offline \in BOOLEAN :
         transfer = TransferWith(file, checksum, offline)

NextTransfer ==
  \/ DownloadCall
  \/ DownloadDelay
  \/ \E outcome \in Outcomes : DownloadRequest(outcome)
  \/ DownloadSettle

SpecTransfer == InitTransfer /\ [][NextTransfer]_vars

(* SpecThread: one worker thread and any MaxMessages messages at its port. *)

InitThread ==
  /\ InitCoordinator
  /\ LoaderAtRest
  /\ StoreAtRest
  /\ DetectorAtRest
  /\ QueueAtRest
  /\ TransferAtRest
  /\ ThreadAtRest

NextThread ==
  \/ ReceiveInit
  \/ ReceiveTranslation
  \/ \E n \in 1..MaxMessages : \E ok \in BOOLEAN : WasmLoaded(n, ok)
  \/ \E n \in 1..MaxMessages : \E ok \in BOOLEAN : TaskSettled(n, ok)

SpecThread == InitThread /\ [][NextThread]_vars

(* SpecLoad: MaxLoads calls of Preload that miss the cache, with any models *)
(* downloaded by a previous run, and the idle eviction switched on.        *)

InitLoad ==
  /\ InitCoordinator
  /\ StoreAtRest
  /\ DetectorAtRest
  /\ QueueAtRest
  /\ TransferAtRest
  /\ ThreadAtRest
  /\ \E downloaded \in SUBSET DownloadableModels : loader = LoaderWith(downloaded)

NextLoad ==
  \/ \E f \in LoadIds : \E pair \in LoadPairs : LoadModelsCall(f, pair)
  \/ \E f \in LoadIds : ModelsInitDone(f)
  \/ \E f \in LoadIds : \E model \in DownloadableModels : DownloadedModelLoaded(f, model)
  \/ \E f \in LoadIds : RequiredModelsLoaded(f)
  \/ \E f \in LoadIds : WorkersInitialized(f)
  \/ \E idle \in SUBSET LoadPairs : SweepReleases(idle)
  \/ \E key \in LoadPairs : TimeoutRemoves(key)

SpecLoad == InitLoad /\ [][NextLoad]_vars

-----------------------------------------------------------------------------
(* Properties of concurrent callers, checked under Spec.                   *)

\* createWorkerPool has returned a pool to frame c
Built(c) ==
  /\ calls[c].pool # <<>>
  /\ \A w \in Range(calls[c].pool) : workers[w].listener = "resolved"

\* the pool frame c built is not the one cached under its key, and one of
\* its workers is still running
Orphaned(c) ==
  /\ Built(c)
  /\ calls[c].key \in DOMAIN cachedEngines
  /\ cachedEngines[calls[c].key].workerPool # calls[c].pool
  /\ \E w \in Range(calls[c].pool) : Alive(w)

\* C1: under concurrent Translate or Preload calls on one pair that is not
\* cached, one pool is built for the pair: no two builds of one key run at
\* the same time, and no pool is built, replaced in the map and left
\* un-terminated
C1_SinglePoolPerPair ==
  /\ \A c, d \in Frames :
       (c # d /\ calls[c].pc \in {"loadModels", "initWorkers"}
              /\ calls[d].pc \in {"loadModels", "initWorkers"})
         => calls[c].key # calls[d].key
  /\ \A c \in Frames : ~Orphaned(c)

\* C2: at the moment Shutdown() returns the engine cache is empty, no worker
\* the coordinator created is alive, the sweeper timer is stopped, and every
\* request that was pending has been rejected exactly once, whatever calls
\* were in flight when it was invoked
C2_ShutdownPostcondition ==
  [][ (shutdown # "returned" /\ shutdown' = "returned")
        => /\ cachedEngines' = EmptyMap
           /\ \A w \in DOMAIN workers' : workers'[w].state = "terminated"
           /\ ~memoryReleaseTimer'
           /\ pendingMessages' = {}
           /\ \A i \in 1..Len(msgLog') : msgLog'[i].settles = 1 ]_vars

\* nothing is on its way: no message in a port, no load and no worker
\* initialisation in progress, no Shutdown waiting for the workers' exit
Quiescent ==
  /\ \A w \in DOMAIN workers :
       /\ workers[w].outbox = <<>>
       /\ workers[w].inbox = <<>>
  /\ \A c \in Frames : calls[c].pc \notin {"loadModels", "initWorkers"}
  /\ shutdown # "terminating"

\* C3: every pending translation is settled exactly once: none is settled
\* twice, and none is left pending once every message has been delivered
\* and every event has been handled
C3_SettledExactlyOnce ==
  /\ \A i \in 1..Len(msgLog) : msgLog[i].settles <= 1
  /\ Quiescent => pendingMessages = {}

-----------------------------------------------------------------------------
(* Properties of one call, checked under SpecPipe.  They are stated on the *)
(* arguments the caller passed (input, argFrom, argTo) and on what the     *)
(* call did (key, pool, ccLog, result).                                    *)

HanCodes == {"zh-Hans", "zh-Hant", "zh-TW", "zh-HK"}
HanVariants == {"zh-Hant", "zh-TW", "zh-HK"}

\* the canonical code of a supported code
Canonical(code) == IF code = "zh-CN" THEN "zh-Hans" ELSE code

\* frame c is a call of Translate that passed validation, from a to b
TranslateOf(c, a, b) ==
  /\ calls[c].kind = "Translate"
  /\ calls[c].pc # "idle"
  /\ calls[c].input.items # <<>>
  /\ calls[c].argFrom # "auto"
  /\ calls[c].argFrom \in MALL /\ calls[c].argTo \in MALL
  /\ Canonical(calls[c].argFrom) = a
  /\ Canonical(calls[c].argTo) = b

\* frame c has not asked for an engine
NoEngine(c) ==
  /\ calls[c].key = <<>>
  /\ calls[c].pool = <<>>
  /\ workers = <<>>
  /\ cachedEngines = EmptyMap
  /\ messageId = 0

\* C4: when both ends of a Translate call are Han-script codes and differ,
\* the call is pure script conversion: Preload is not called, no worker is
\* created and no model is loaded
C4_HanPairsNeedNoEngine ==
  \A a, b \in HanCodes :
    (a # b /\ TranslateOf(1, a, b)) => NoEngine(1)

\* the pair in which every Han variant is replaced by zh-Hans
Effective(a, b) ==
  << IF a \in HanVariants THEN "zh-Hans" ELSE a,
     IF b \in HanVariants THEN "zh-Hans" ELSE b >>

\* C5: when from or to is a Han variant and the call is not pure script
\* conversion, the pool Translate asks for is the pool of the effective
\* pair, in which every variant is replaced by zh-Hans
C5_EffectivePairPool ==
  \A a, b \in MALL :
    ( /\ TranslateOf(1, a, b)
      /\ a \in HanVariants \/ b \in HanVariants
      /\ ~(a \in HanCodes /\ b \in HanCodes)
      /\ calls[1].key # <<>> )
      => calls[1].key = Effective(a, b)

\* the converter steps planned for a pure script conversion from a to b
Planned(a, b) ==
  (IF a \in HanVariants
     THEN << IF a = "zh-HK" THEN "hk2s" ELSE "tw2sp" >> ELSE <<>>)
  \o (IF b \in HanVariants
        THEN << IF b = "zh-HK" THEN "s2hk" ELSE "s2twp" >> ELSE <<>>)

\* C6: in pure script conversion each text passes through the planned
\* converter steps, once each and in order, and through no other
C6_ConvertersOnceEach ==
  \A a, b \in HanCodes :
    (a # b /\ TranslateOf(1, a, b) /\ calls[1].pc = "returned")
      => \A i \in 1..Len(calls[1].ccLog) : calls[1].ccLog[i] = Planned(a, b)

\* no converter has been called on a text of frame c
NoConversion(c) == \A i \in 1..Len(calls[c].ccLog) : calls[c].ccLog[i] = <<>>

\* C7: for every supported code L, an alias against its canonical code
\* included, Translate(s, L, L) returns s unchanged, without creating a
\* pool, dispatching a message or calling the script converter
C7_IdentityShortCircuit ==
  ( /\ calls[1].kind = "Translate"
    /\ calls[1].argFrom \in MALL /\ calls[1].argTo \in MALL
    /\ Canonical(calls[1].argFrom) = Canonical(calls[1].argTo) )
    => /\ calls[1].pc = "returned"
       /\ calls[1].result = calls[1].input
       /\ NoEngine(1)
       /\ NoConversion(1)

\* Translate(<<s, " ">>, "zh-CN", "zh-Hans") has returned its input
C7_Witness ==
  /\ calls[1].kind = "Translate"
  /\ calls[1].argFrom = "zh-CN" /\ calls[1].argTo = "zh-Hans"
  /\ calls[1].pc = "returned"
  /\ calls[1].input = Array(<< <<Glyph(1, "hans")>>, <<WS>> >>)
  /\ calls[1].result = calls[1].input

\* C8: for every Translate call that returns, the output has the shape of
\* the input: a string for a string, a list of n results for a list of n
\* texts, on every path
C8_ShapePreserved ==
  (calls[1].kind = "Translate" /\ calls[1].pc = "returned")
    => /\ calls[1].result.arr = calls[1].input.arr
       /\ Len(calls[1].result.items) = Len(calls[1].input.items)

\* Translate of a list of two texts through a pivot pool (ja -> en ->
\* zh-Hans) has returned a list of two results
C8_Witness ==
  /\ calls[1].kind = "Translate" /\ calls[1].pc = "returned"
  /\ calls[1].key = <<"ja", "zh-Hans">>
  /\ calls[1].input.arr /\ Len(calls[1].input.items) = 2
  /\ Len(calls[1].result.items) = 2
  /\ Len(msgLog) = 2

\* the texts frame c passed to translateWithWorker
Sent(c) ==
  IF calls[c].kind = "Translate" THEN calls[c].texts ELSE calls[c].input.items

NonBlank(texts) == { i \in 1..Len(texts) : ~IsBlank(texts[i]) }

\* C9 as stated: on every Translate or handle.translate call that returns,
\* a text that is empty or blank yields the empty string at its position,
\* and nothing is posted to a worker for it
C9_BlankYieldsEmptyEverywhere ==
  /\ \A i \in 1..Len(msgLog) : ~IsBlank(msgLog[i].src)
  /\ calls[1].pc = "returned"
       => \A i \in 1..Len(calls[1].input.items) :
            IsBlank(calls[1].input.items[i]) => calls[1].result.items[i] = <<>>

\* C9 amended: on every call that passes its texts to a pool (handle.
\* translate, and Translate beyond its identity and script-conversion
\* paths) a blank text yields the empty string at its position; on every
\* path nothing is posted for a blank text, no pending entry is made for it
\* and neither messageId nor the round-robin index advances for it
C9_BlankBypassesEngine ==
  /\ \A i \in 1..Len(msgLog) : ~IsBlank(msgLog[i].src)
  /\ calls[1].slots # <<>>
       => /\ messageId = Cardinality(NonBlank(Sent(1)))
          /\ { calls[1].slots[i].id : i \in NonBlank(Sent(1)) } = 0..(messageId - 1)
          /\ \A i \in 1..Len(Sent(1)) :
               IsBlank(Sent(1)[i]) => calls[1].slots[i] = BlankSlot
          /\ calls[1].key \in DOMAIN cachedEngines
               => cachedEngines[calls[1].key].nextWorkerIndex
                    = messageId % workersPerPair
          /\ calls[1].pc = "returned"
               => \A i \in 1..Len(calls[1].input.items) :
                    IsBlank(calls[1].input.items[i])
                      => calls[1].result.items[i] = <<>>

\* translate(<<" ", s>>) on a handle has returned <<"", t>> after one message
C9_Witness ==
  /\ calls[1].kind = "Preload" /\ calls[1].pc = "returned"
  /\ calls[1].input.arr
  /\ Len(calls[1].input.items) = 2
  /\ calls[1].input.items[1] = <<WS>>
  /\ ~IsBlank(calls[1].input.items[2])
  /\ calls[1].result.items[1] = <<>>
  /\ messageId = 1

Glyphs(text) == [k \in 1..Len(text) |-> text[k][1]]

\* C10: for one translate call on a list, result[i] is the translation of
\* input[i] for every i, whichever worker served it and in whatever order
\* the responses came
C10_ResultsInInputOrder ==
  (calls[1].pc = "returned" /\ calls[1].slots # <<>>)
    => \A i \in 1..Len(calls[1].input.items) :
         ~IsBlank(calls[1].input.items[i])
           => /\ Glyphs(calls[1].result.items[i]) = Glyphs(calls[1].input.items[i])
              /\ calls[1].slots[i].id = i - 1 - Cardinality({ j \in 1..(i - 1) :
                                            IsBlank(calls[1].input.items[j]) })

\* two texts went to two workers, the second response came first, and the
\* call has returned
C10_Witness ==
  /\ calls[1].pc = "returned"
  /\ calls[1].input.arr
  /\ Len(msgLog) = 2
  /\ msgLog[1].worker # msgLog[2].worker
  /\ calls[1].arrival = <<2, 1>>
  /\ Glyphs(calls[1].input.items[1]) # Glyphs(calls[1].input.items[2])

-----------------------------------------------------------------------------
(* Properties of the idle eviction, checked under SpecEvict.               *)

\* the time since the entry of key k was last used
IdleFor(k) == loop.now - cachedEngines[k].lastUsedTime

\* a timer callback of the idle eviction runs
EvictionStep ==
  \/ \E t \in loop.timeouts : TimeoutFires(t)
  \/ SweeperFires

\* the keys this step takes out of the cache
Removed == DOMAIN cachedEngines \ DOMAIN cachedEngines'

C12_EvictsOnlyIdle ==
  [][ EvictionStep => \A k \in Removed : IdleFor(k) >= IdleTimeout ]_vars

\* a step of Shutdown, or the handling of a worker's error event
ShutdownOrErrorStep ==
  \/ shutdown' # shutdown
  \/ \E w \in DOMAIN workers :
       /\ workers[w].outbox # <<>>
       /\ Head(workers[w].outbox).type = "error"
       /\ workers'[w].outbox = Tail(workers[w].outbox)

\* C13: with the eviction disabled the sweep timer is never running, the
\* timeoutId of every entry is null after its creation and after every
\* keepAlive, no timeout is armed, and an entry leaves the cache only by
\* Shutdown or by a worker's error, never for being idle
C13_DisabledNeverEvicts ==
  /\ [](~autoRelease =>
          /\ ~memoryReleaseTimer
          /\ loop.timeouts = {}
          /\ \A k \in DOMAIN cachedEngines : cachedEngines[k].timeoutId = "null")
  /\ [][ (~autoRelease /\ Removed # {}) => ShutdownOrErrorStep ]_vars

\* with the eviction disabled an entry has been used through its handle
\* (keepAlive ran) and then sat idle for longer than the eviction would allow
C13_Witness ==
  /\ ~autoRelease
  /\ calls[1].pc = "returned"
  /\ calls[1].key \in DOMAIN cachedEngines
  /\ cachedEngines[calls[1].key].timeoutId = "null"
  /\ IdleFor(calls[1].key) >= IdleTimeout + CheckInterval

-----------------------------------------------------------------------------
(* Properties of a second Preload, checked under SpecReuse.                *)

\* this step is a call of Preload by frame c for a pair that is cached
PreloadOfCached(c) ==
  /\ calls[c].pc = "idle"
  /\ calls'[c].kind = "Preload"
  /\ calls'[c].key \in DOMAIN cachedEngines

\* C14: a Preload of a pair that an earlier Preload has put in the cache
\* returns at once with the handle of the cached entry: it creates no worker,
\* loads no model, and leaves the entry's pool and its round-robin index as
\* they were
C14_SecondPreloadReuses ==
  [][ \A c \in Frames :
        PreloadOfCached(c) =>
          LET key == calls'[c].key
          IN /\ calls'[c].pc = "hasHandle"
             /\ calls'[c].pool = <<>>
             /\ workers' = workers
             /\ key \in DOMAIN cachedEngines'
             /\ cachedEngines'[key].workerPool = cachedEngines[key].workerPool
             /\ cachedEngines'[key].nextWorkerIndex
                  = cachedEngines[key].nextWorkerIndex
             /\ DOMAIN cachedEngines' = DOMAIN cachedEngines ]_vars

\* frame 2 has the handle of the pool frame 1 built, after frame 1 had moved
\* the round-robin index
C14_Witness ==
  /\ calls[1].kind = "Preload" /\ calls[2].kind = "Preload"
  /\ calls[2].pc = "hasHandle"
  /\ calls[2].key = calls[1].key
  /\ calls[2].pool = <<>>
  /\ calls[2].key \in DOMAIN cachedEngines
  /\ cachedEngines[calls[2].key].workerPool = calls[1].pool
  /\ cachedEngines[calls[2].key].nextWorkerIndex = 1
  /\ Len(workers) = PipeWorkers

-----------------------------------------------------------------------------
(* Properties of the construction of a pool, checked under SpecPipe.       *)

\* the construction of the pool of frame c has failed
BuildFailed(c) == calls[c].pc = "threw" /\ calls[c].err = "create-failed"

\* C15: the construction of a pool is atomic: every worker of a cached pool
\* has reported its initialisation successful, and when the construction has
\* failed the pool is not in the cache and every worker that was spawned for
\* it has been terminated
C15_PoolCreationAtomic ==
  /\ \A k \in DOMAIN cachedEngines :
       \A w \in Range(cachedEngines[k].workerPool) :
         workers[w].listener = "resolved"
  /\ \A c \in Frames :
       BuildFailed(c) =>
         /\ \A k \in DOMAIN cachedEngines :
              cachedEngines[k].workerPool # calls[c].pool
         /\ \A w \in Range(calls[c].pool) : ~Alive(w)

\* the promise of initializeWorker for worker w can no longer be settled:
\* its timeout is cleared or was never needed, no message of the worker is
\* on its way, and the worker will post none
InitStuck(w) ==
  /\ workers[w].listener \in {"awaitInit", "spent"}
  /\ workers[w].outbox = <<>>
  /\ workers[w].inbox = <<>> \/ ~Alive(w)

\* frame c waits in createWorkerPool for a promise that cannot be settled
Hung(c) ==
  /\ calls[c].pc = "initWorkers"
  /\ \E w \in Range(calls[c].pool) : InitStuck(w)
  /\ \A w \in Range(calls[c].pool) :
       InitStuck(w) \/ workers[w].listener = "resolved"

\* C16: the initialisation of a worker is bounded, so a call of Preload
\* returns or throws and never hangs: no call waits for its workers with
\* nothing left that could end the wait, whether the worker was never ready,
\* never answered the initialisation request, or raised an error
C16_PreloadNeverHangs == \A c \in Frames : ~Hung(c)

\* once hung, hung for ever
HungIsFinal == [][ \A c \in Frames : Hung(c) => Hung(c)' ]_vars

-----------------------------------------------------------------------------
(* Properties of the handling of worker events, checked under SpecReuse.   *)

\* the pending messages that were sent to the pool of `key`
InFlight(key) == { i \in pendingMessages : msgLog[i + 1].key = key }

\* this step is the coordinator receiving the oldest event of worker w, and
\* that event is of the given type
Receives(w, type) ==
  /\ workers[w].outbox # <<>>
  /\ Head(workers[w].outbox).type = type
  /\ workers'[w].outbox = Tail(workers[w].outbox)

\* worker w is in the pool that is cached for its language pair
InCachedPool(w) ==
  LET key == getLanguagePairKey(workers[w].from, workers[w].to)
  IN key \in DOMAIN cachedEngines /\ w \in Range(cachedEngines[key].workerPool)

\* the pool cached under k after this step was put there by this step
NewlyCached(k) ==
  k \notin DOMAIN cachedEngines
    \/ cachedEngines'[k].workerPool # cachedEngines[k].workerPool

C18_TranslationErrorFailsOnlyItsRequest ==
  [][ \A w \in DOMAIN workers :
        Receives(w, "translation-error") =>
          LET m == Head(workers[w].outbox).messageId
          IN /\ cachedEngines' = cachedEngines
             /\ workers' = [workers EXCEPT ![w].outbox = Tail(@)]
             /\ memoryReleaseTimer' = memoryReleaseTimer
             /\ loop' = loop
             /\ messageId' = messageId
             /\ pendingMessages' = pendingMessages \ {m}
             /\ \A i \in 1..Len(msgLog) :
                  IF i - 1 = m /\ m \in pendingMessages
                    THEN /\ msgLog'[i].outcome = "rejected"
                         /\ msgLog'[i].settles = msgLog[i].settles + 1
                    ELSE msgLog'[i] = msgLog[i]
             /\ \A c \in Frames :
                  calls'[c] # calls[c] =>
                    /\ m \in pendingMessages
                    /\ msgLog[m + 1].call = c
                    /\ calls'[c].pc = "threw"
                    /\ calls'[c].err = "translation-error" ]_vars

\* the request of frame 1 failed with a translation error, and the same pool
\* has since translated the text of frame 2
C18_Witness ==
  /\ calls[1].pc = "threw" /\ calls[1].err = "translation-error"
  /\ calls[2].pc = "returned"
  /\ calls[2].key = calls[1].key
  /\ calls[2].pool = <<>>
  /\ calls[2].key \in DOMAIN cachedEngines
  /\ cachedEngines[calls[2].key].workerPool = calls[1].pool
  /\ \A v \in Range(calls[1].pool) : Alive(v)

\* this step is a call of discardTranslations() on the handle of frame c
DiscardCall(c) == calls'[c].discards = calls[c].discards + 1

\* C19: discardTranslations(pair) sends DiscardQueue to every worker of the
\* pair's pool and does nothing when the pair is not cached; a message that
\* was in flight against the pair when it was called is not fulfilled
\* afterwards: it stays pending until it is rejected, once
C19_DiscardRejectsInFlight ==
  /\ [][ \A c \in Frames :
           DiscardCall(c) =>
             IF calls[c].key \in DOMAIN cachedEngines
               THEN \A w \in Range(cachedEngines[calls[c].key].workerPool) :
                      Alive(w) =>
                        workers'[w].inbox =
                          Append(workers[w].inbox,
                                 [type |-> "discard-translation-queue"])
               ELSE workers' = workers ]_vars
  /\ [](\A c \in Frames : \A i \in calls[c].inFlight :
          /\ msgLog[i + 1].outcome # "resolved"
          /\ msgLog[i + 1].settles <= 1)

-----------------------------------------------------------------------------
(* Properties of the worker's handling of whitespace, checked under        *)
(* SpecWrap.                                                               *)

\* the longest run of whitespace a text starts with, and ends with
LeadRun(text) ==
  LET n == CHOOSE k \in 0..Len(text) :
             /\ \A i \in 1..k : text[i] = WS
             /\ k < Len(text) => text[k + 1] # WS
  IN SubSeq(text, 1, n)

TrailRun(text) ==
  LET n == CHOOSE k \in 0..Len(text) :
             /\ \A i \in (Len(text) - k + 1)..Len(text) : text[i] = WS
             /\ k < Len(text) => text[Len(text) - k] # WS
  IN SubSeq(text, Len(text) - n + 1, Len(text))

\* a text without the whitespace runs at its two ends
Core(text) ==
  SubSeq(text, Len(LeadRun(text)) + 1, Len(text) - Len(TrailRun(text)))

\* C20: for every text dispatched to a worker, the targetText of the response
\* is the leading whitespace run of the source text, then the engine's
\* translation of the text between the runs, then the trailing whitespace
\* run of the source text
C20_WhitespaceRoundTrip ==
  \A i \in 1..Len(msgLog) :
    msgLog[i].outcome = "resolved" =>
      LET src == msgLog[i].src
          to == msgLog[i].key[2]
      IN msgLog[i].val =
           LeadRun(src)
             \o BergamotTranslate(to, RemoveSoftHyphens(Core(src)))
             \o TrailRun(src)

\* a text with whitespace before and after a glyph has been translated
C20_Witness ==
  \E i \in 1..Len(msgLog) :
    /\ msgLog[i].outcome = "resolved"
    /\ Len(msgLog[i].src) = MaxPad
    /\ LeadRun(msgLog[i].src) # <<>>
    /\ TrailRun(msgLog[i].src) # <<>>
    /\ Core(msgLog[i].src) # <<>>
    /\ calls[1].pc = "returned"
    /\ calls[1].result.items = <<msgLog[i].val>>

-----------------------------------------------------------------------------
(* Properties of the model store, checked under SpecStore.                 *)

\* the file kinds an engine needs: the model, and the vocabulary as one file
\* or as a source and a target file
Complete(bundle) ==
  /\ "model" \in bundle
  /\ "vocab" \in bundle \/ {"srcvocab", "trgvocab"} \subseteq bundle

\* C21: a call of GetModel that does not fail returns a bundle with all the
\* required file kinds: the model, and either vocab or both srcvocab and
\* trgvocab; it never returns a part of them.
C21_BundleComplete ==
  store.pc = "returned" => Complete(store.bundle)

\* C22: every file of a bundle GetModel returns has had its SHA-256 compared
\* with the catalogue's during the call, and they were equal; this holds
\* also when the pair is already in the list of downloaded pairs.
C22_BundleVerified ==
  store.pc = "returned" => store.bundle \subseteq store.verified

\* the call of getModel is over
StoreDone == store.pc \in {"returned", "threw"}

\* C23 as stated: a file is requested at most 3 times by default, and the
\* download always ends, in success or in an error.
C23_AtMostThreeAttempts ==
  /\ [](\A k \in Range(FileKinds) : store.requests[k] <= maxRetries)
  /\ (store.pc = "download" ~> StoreDone)

\* C23, amended: a file is requested at most 1 + maxRetries = 4 times by
\* default (the first attempt and three retries); a download fails only
\* after that many requests, and the downloads always end.
C23_BoundedRetry ==
  /\ [](\A k \in Range(FileKinds) : store.requests[k] <= maxRetries + 1)
  /\ [](\A i \in 1..Len(store.results) :
           store.results[i].status = "failed"
             => store.requests[store.results[i].kind] = maxRetries + 1)
  /\ (store.pc = "download" ~> StoreDone)

\* a download has failed after its fourth request, and the call is over
C23_Witness ==
  /\ StoreDone
  /\ \E i \in 1..Len(store.results) :
       /\ store.results[i].status = "failed"
       /\ store.requests[store.results[i].kind] = maxRetries + 1

-----------------------------------------------------------------------------
(* Properties of language detection, checked under SpecDetect.             *)

\* the text the classifier is given has a character that is not whitespace
Classifiable(text) ==
  \E i \in 1..Len(text) : i <= MAX_DETECTION_LENGTH /\ text[i] # WS

\* C24: DetectLang returns a code whatever the detector does, a failure of
\* the detector included: "en" for an
\* argument that is not a string, is empty or is only whitespace, "en" when
\* the detector throws or its result is unknown; otherwise alpha2 when the
\* classifier gives one ("zh" becoming "zh-Hans"), else the rewrite of alpha3
\* in the fixed table, else "en".
C24_DetectionIsTotal ==
  (detector.pc = "returned" =>
     LET text == detector.text
         lib == detector.lib
     IN detector.result =
          IF ~IsString(text) \/ text = <<>> \/ IsBlank(text) THEN "en"
          ELSE IF lib.init = "throws" \/ lib.identify = "throws" THEN "en"
          ELSE IF ~Classifiable(text) THEN "en"
          ELSE IF lib.alpha2 # Null
            THEN (IF lib.alpha2 = "zh" THEN "zh-Hans" ELSE lib.alpha2)
          ELSE IF lib.alpha3 \in {"yue", "wuu", "sco"}
            THEN (CASE lib.alpha3 = "yue" -> "zh-Hant"
                    [] lib.alpha3 = "wuu" -> "zh-Hans"
                    [] OTHER -> "en")
          ELSE "en")

\* the classifier has answered "zh" for a text, and DetectLang has returned
\* the code of simplified Chinese
C24_Witness ==
  /\ detector.pc = "returned"
  /\ IsString(detector.text) /\ Classifiable(detector.text)
  /\ detector.lib = Library("ok", "ok", "zh", Null)
  /\ detector.result = "zh-Hans"

-----------------------------------------------------------------------------
(* Properties of a failed Preload, checked under Spec.                     *)

\* the call of frame c has failed while the models were loaded
LoadFailed(c) ==
  /\ calls[c].pc = "threw"
  /\ calls[c].err = "create-failed"
  /\ calls[c].pool = <<>>

\* a step in which the Preload of some frame fails
PreloadFails ==
  \E c \in Frames :
    /\ calls[c].pc \in {"loadModels", "initWorkers"}
    /\ calls'[c].pc = "threw"

\* C25: an error of the catalogue or of the I/O while the models are loaded
\* reaches the caller and leaves the cache as it was: the step in which a
\* Preload fails changes no entry of the map and no timer; the pair of the
\* failed call has no entry unless another call has built one; and a later
\* Preload of a pair that has no entry starts to build it again.
C25_FailedPreloadLeavesCache ==
  /\ [][PreloadFails =>
          /\ cachedEngines' = cachedEngines
          /\ loop' = loop
          /\ memoryReleaseTimer' = memoryReleaseTimer]_vars
  /\ [](\A c \in Frames :
          (/\ LoadFailed(c)
           /\ \A d \in Frames \ {c} :
                calls[d].key # calls[c].key \/ calls[d].pool = <<>>)
            => calls[c].key \notin DOMAIN cachedEngines)
  /\ [][\A d \in Frames :
          (/\ calls[d].pc = "idle"
           /\ calls'[d].kind = "Preload"
           /\ calls'[d].key \notin DOMAIN cachedEngines)
            => calls'[d].pc = "loadModels"]_vars

\* the Preload of frame 1 has failed while its models were loaded, and a
\* later Preload of the same pair has built the pool and holds its handle
C25_Witness ==
  /\ LoadFailed(1)
  /\ calls[2].kind = "Preload"
  /\ calls[2].key = calls[1].key
  /\ calls[2].pc = "hasHandle"
  /\ calls[2].key \in DOMAIN cachedEngines

-----------------------------------------------------------------------------
(* Properties of the work queue, checked under SpecQueue.  The             *)
(* translationId of a task is its rank in the order of submission.         *)

\* what the worker has posted for the task of a request
PostedFor(id) ==
  { i \in 1..Len(queue.delivered) : queue.delivered[i].id = id }

\* C26: the completions of two tasks submitted to one queue are delivered in
\* the order of submission, whether the tasks ran through the first-tasks
\* bypass or through the queue.
C26_FifoPerWorker ==
  \A a, b \in 1..Len(queue.delivered) :
    (a < b /\ queue.delivered[a].id > 0 /\ queue.delivered[b].id > 0)
      => queue.delivered[a].id < queue.delivered[b].id

\* a task that took the bypass and two that were queued have been answered
C26_Witness ==
  /\ Len(queue.delivered) >= 3
  /\ \A i \in 1..3 : queue.delivered[i] = [id |-> i, status |-> "response"]
  /\ queue.cancelAlls = 0 /\ queue.cancelOnes = 0

\* C27: at most one task of a queue is executing at any time, a task that
\* starts is the only one that has started and not finished (the first
\* tasks, which bypass the queue, included), and at most one drain loop is
\* active.
C27_OneTaskAtATime ==
  /\ [](Cardinality(queue.running) <= 1)
  /\ [](queue.loops <= 1)
  /\ [][queue'.started # queue.started =>
          queue'.running = {queue'.started[Len(queue'.started)]}]_vars

\* the drain loop is executing a task while another one waits in the queue
C27_Witness ==
  /\ queue.run.pc = "task"
  /\ queue.running # {}
  /\ queue.tasks # <<>>
  /\ queue.loops = 1

\* nothing is due on the event loop of the worker
QueueQuiet == queue.micro = <<>> /\ queue.immediates = <<>>

\* C28: a task that CancelOne finds in the queue is removed and its awaiter
\* fails with Cancelled, so that the worker posts an error for the request.
C28_CancelOneFailsAwaiter ==
  QueueQuiet =>
    \A id \in queue.removedOne :
      \E i \in PostedFor(id) : queue.delivered[i].status = "cancelled"

\* the step of cancelWork
CancelAllStep == queue'.cancelAlls = queue.cancelAlls + 1

\* C29: CancelAll removes every task that is queued when it is called and
\* fails the awaiter of each with Cancelled, once; none of them is executed
\* afterwards; and the cancel flag is cleared again after one yield.
C29_CancelAllRejectsQueued ==
  /\ [][CancelAllStep =>
          /\ queue'.tasks = <<>>
          /\ queue'.isWorkCancelled
          /\ \A id \in Range(queue.tasks) :
               Cardinality({ i \in 1..Len(queue'.micro) :
                               queue'.micro[i] =
                                 Microtask("awaiter", id, "cancelled") }) = 1]_vars
  /\ [](\A id \in queue.removedAll :
          /\ id \notin Range(queue.started)
          /\ id \notin Range(queue.tasks)
          /\ Cardinality(PostedFor(id)) <= 1
          /\ QueueQuiet =>
               \E i \in PostedFor(id) : queue.delivered[i].status = "cancelled")
  /\ [](queue.isWorkCancelled =>
          \E i \in 1..Len(queue.immediates) : queue.immediates[i] = "cancelWork")
  /\ [][(/\ queue.immediates # <<>>
         /\ Head(queue.immediates) = "cancelWork"
         /\ queue'.immediates = Tail(queue.immediates))
          => ~queue'.isWorkCancelled]_vars

\* two queued tasks have been cancelled by one CancelAll and the worker has
\* posted an error for each; the flag is clear again
C29_Witness ==
  /\ QueueQuiet
  /\ Cardinality(queue.removedAll) >= 2
  /\ queue.cancelAlls = 1
  /\ ~queue.isWorkCancelled
  /\ \A id \in queue.removedAll :
       \E i \in PostedFor(id) : queue.delivered[i].status = "cancelled"

\* C30: cancellation never blocks the queue: no task is left in the queue
\* with no drain loop running or scheduled, so that every task that is not
\* itself cancelled is executed and its awaiter settled; and the running
\* flag is false whenever no drain loop is active.
C30_CancellationNeverStrands ==
  /\ QueueQuiet =>
       /\ queue.tasks = <<>>
       /\ \A id \in Range(queue.submitted) \ (queue.removedOne \cup queue.removedAll) :
            PostedFor(id) # {}
  /\ queue.isRunning = (queue.loops > 0)

-----------------------------------------------------------------------------
(* Properties of the dispatch, checked under SpecRound.                    *)

\* the messages dispatched to the workers of a pool, in dispatch order
DispatchedTo(workerPool) ==
  SelectSeq(msgLog, LAMBDA m : m.worker \in Range(workerPool))

\* the number of messages of a log that went to worker w
CountFor(log, w) == Cardinality({ i \in 1..Len(log) : log[i].worker = w })

\* C31: for every cached pool of N workers, 0 <= nextWorkerIndex < N; the
\* k-th dispatch on the pool, counted from 0 across all the calls that use
\* it, went to worker k mod N, and nextWorkerIndex is the number of
\* dispatches mod N; the dispatch counts of two workers of the pool differ
\* by at most one.
C31_RoundRobin ==
  \A key \in DOMAIN cachedEngines :
    LET cachedEngine == cachedEngines[key]
        workerPool == cachedEngine.workerPool
        N == Len(workerPool)
        D == DispatchedTo(workerPool)
    IN /\ 0 <= cachedEngine.nextWorkerIndex
       /\ cachedEngine.nextWorkerIndex < N
       /\ cachedEngine.nextWorkerIndex = Len(D) % N
       /\ \A k \in 1..Len(D) : D[k].worker = workerPool[((k - 1) % N) + 1]
       /\ \A v, w \in Range(workerPool) :
            CountFor(D, v) - CountFor(D, w) \in {-1, 0, 1}

\* a pool of two workers has had three dispatches, made by two calls: the
\* third went to the first worker again
C31_Witness ==
  \E key \in DOMAIN cachedEngines :
    LET workerPool == cachedEngines[key].workerPool
        D == DispatchedTo(workerPool)
    IN /\ Len(workerPool) = 2
       /\ Len(D) = 3
       /\ D[1].call # D[3].call
       /\ D[3].worker = workerPool[1]
       /\ cachedEngines[key].nextWorkerIndex = 1

-----------------------------------------------------------------------------
(* Properties of the models of a pool, checked under SpecPipe.             *)

\* the payloads the claim expects for the pair of worker w
ExpectedPayloads(w) ==
  LET a == workers[w].from
      b == workers[w].to
  IN IF a # "en" /\ b # "en"
       THEN << ModelKey(a, "en"), ModelKey("en", b) >>
       ELSE << ModelKey(a, b) >>

\* C32: a worker of a pool for the pair (a, b) with neither end English is
\* initialised with exactly the two payloads a->en and en->b, in this order,
\* and answers through the pivoting call; a worker of a pair with an English
\* end is initialised with the one payload a->b and answers through the
\* single-model call; no worker holds more than two models.
C32_DirectOrPivot ==
  \A w \in DOMAIN workers :
    /\ workers[w].payloads = ExpectedPayloads(w)
    /\ \A i \in 1..Len(workers[w].inbox) :
         workers[w].inbox[i].type = "initialize"
           => workers[w].inbox[i].modelPayloads = ExpectedPayloads(w)
    /\ Len(workers[w].models) <= 2
    /\ workers[w].state = "initialized"
         => workers[w].models = ExpectedPayloads(w)
    /\ \A i \in 1..Len(workers[w].outbox) :
         workers[w].outbox[i].type = "translation-response"
           => workers[w].outbox[i].via =
                IF Len(ExpectedPayloads(w)) = 2 THEN "pivot" ELSE "single"

\* a worker of the pair ja -> zh-Hans holds the two models and has
\* translated a text through the pivoting call
C32_Witness ==
  \E w \in DOMAIN workers :
    /\ workers[w].from = "ja" /\ workers[w].to = "zh-Hans"
    /\ workers[w].models = << ModelKey("ja", "en"), ModelKey("en", "zh-Hans") >>
    /\ \E i \in 1..Len(workers[w].outbox) :
         /\ workers[w].outbox[i].type = "translation-response"
         /\ workers[w].outbox[i].via = "pivot"

-----------------------------------------------------------------------------
(* Properties of the message ids, checked under SpecRound.                 *)

\* frame c dispatches its texts in this step
Dispatches(c) == calls[c].slots = <<>> /\ calls'[c].slots # <<>>

\* the texts frame c has passed to translateWithWorker
PassedTexts(c) ==
  IF calls[c].kind = "Translate" THEN calls[c].texts ELSE calls[c].input.items

\* the positions of the frames whose request is in #pendingMessages
Outstanding ==
  { <<c, i>> \in Frames \X (1..MaxTexts) :
      /\ i <= Len(calls[c].slots)
      /\ calls[c].slots[i].st = "pending"
      /\ calls[c].slots[i].id \in pendingMessages }

\* the translation requests that are in a worker's port
InPort ==
  { <<w, i>> \in (DOMAIN workers) \X (1..(MaxCalls * MaxTexts)) :
      /\ i <= Len(workers[w].inbox)
      /\ workers[w].inbox[i].type = "translation-request" }

\* C33: a dispatch gives every non-blank text one pending entry under a
\* message id of its own and none to a blank text; the ids are taken from
\* #messageId in dispatch order, one after the other, and #messageId never
\* goes back, so that no two outstanding requests and no two requests in the
\* ports of the workers have the same id.
C33_UniqueMessageIds ==
  /\ [][\A c \in Frames : Dispatches(c) =>
          LET texts == PassedTexts(c)'
              sent == { i \in 1..Len(texts) : ~IsBlank(texts[i]) }
              slots == calls'[c].slots
          IN /\ messageId' = messageId + Cardinality(sent)
             /\ Len(msgLog') = Len(msgLog) + Cardinality(sent)
             /\ pendingMessages' = pendingMessages \cup (messageId..(messageId' - 1))
             /\ \A i \in 1..Len(texts) :
                  IF i \in sent
                    THEN /\ slots[i].id =
                              messageId + Cardinality({ j \in sent : j < i })
                         /\ msgLog'[slots[i].id + 1].call = c
                         /\ msgLog'[slots[i].id + 1].pos = i
                    ELSE slots[i] = BlankSlot]_vars
  /\ [][messageId' >= messageId]_vars
  /\ [](/\ Len(msgLog) = messageId
        /\ pendingMessages \subseteq 0..(messageId - 1)
        /\ \A x, y \in Outstanding :
             calls[x[1]].slots[x[2]].id = calls[y[1]].slots[y[2]].id => x = y
        /\ \A id \in pendingMessages :
             \E x \in Outstanding : calls[x[1]].slots[x[2]].id = id
        /\ \A x, y \in InPort :
             workers[x[1]].inbox[x[2]].messageId = workers[y[1]].inbox[y[2]].messageId
               => x = y)

\* two callers have three requests outstanding between them, under the ids
\* 0, 1 and 2
C33_Witness ==
  /\ pendingMessages = {0, 1, 2}
  /\ \E x, y \in Outstanding : x[1] # y[1]
  /\ Cardinality(Outstanding) = 3

-----------------------------------------------------------------------------
(* Properties of a download, checked under SpecTransfer.                   *)

\* a pass that failed leaves no file for the next pass, and a download that
\* gave up after its passes leaves none at all
FailedPassesLeaveNoFile ==
  /\ \A i \in 1..Len(transfer.left) : transfer.left[i].kept = "absent"
  /\ (transfer.pc \in {"delay", "request"} /\ transfer.retries > 0)
       => transfer.file = "absent"
  /\ (transfer.pc = "threw" /\ ~transfer.offline) => transfer.file = "absent"

-----------------------------------------------------------------------------
(* The life of the sweep timer, checked under SpecEvict and SpecSweep.     *)

\* no call of Preload or translate is between its call and its return, no
\* message is in a port and Shutdown is not waiting for the workers' exit
NoOperationMidFlight ==
  /\ Quiescent
  /\ \A c \in Frames : calls[c].pc # "awaitResults"

\* a step in which setInterval is called for the sweep timer: its next run
\* is set otherwise than by its own callback
SweeperStarted ==
  /\ memoryReleaseTimer'
  /\ loop'.sweepAt # loop.sweepAt
  /\ ~SweeperFires

\* the sweep timer runs exactly when the cache holds an entry, seen when no
\* operation is mid-flight
TimerIffCached ==
  (autoRelease /\ NoOperationMidFlight)
     => (memoryReleaseTimer <=> cachedEngines # EmptyMap)

\* a sweep timer is started only while none is running
OneSweeper == [][ SweeperStarted => ~memoryReleaseTimer ]_vars

\* C35: with the eviction enabled, seen when no operation is mid-flight, the
\* sweep timer is running if and only if the cache holds an entry, and
\* there is never more than one sweep timer: none is started while one runs.
C35_SweeperLifecycle == []TimerIffCached /\ OneSweeper

-----------------------------------------------------------------------------
(* Properties of a worker thread, checked under SpecThread.                *)

\* the messages of one type the thread has posted
PostedOfType(type) ==
  { i \in 1..Len(thread.posted) : thread.posted[i].type = type }

\* an InitRequest is received by an initialized worker: the engine stays
\* and the answer is an error
InitAfterSuccessRefused ==
  (thread.isInitialized /\ ReceiveInit) =>
     /\ thread'.engine = thread.engine
     /\ thread'.built = thread.built
     /\ thread'.posted =
          Append(thread.posted, [type |-> "translation-error",
                                 messageId |-> Undefined])

\* a TranslationRequest is received by a worker that is not initialized: it
\* is answered with an error carrying its messageId and is not enqueued
EarlyTranslationRefused ==
  (~thread.isInitialized /\ ReceiveTranslation) =>
     /\ thread'.tasks = thread.tasks
     /\ thread'.posted =
          Append(thread.posted, [type |-> "translation-error",
                                 messageId |-> thread'.received])

-----------------------------------------------------------------------------
(* References to terminated workers, checked under Spec.                   *)

\* the coordinator has called terminate() on worker w: the thread is gone
\* and not by an error the coordinator has yet to hear of
TerminateCalled(w) ==
  /\ workers[w].state = "terminated"
  /\ \A i \in 1..Len(workers[w].outbox) : workers[w].outbox[i].type # "error"

\* the workers a cache entry leads to
CachedWorkers ==
  UNION { Range(cachedEngines[k].workerPool) : k \in DOMAIN cachedEngines }

\* the workers this step posts a TranslationRequest to
RequestedNow ==
  { msgLog'[i].worker : i \in (Len(msgLog) + 1)..Len(msgLog') }

\* the workers this step posts a DiscardQueue message to
DiscardedNow ==
  UNION { IF DiscardTranslations(c) /\ calls[c].key \in DOMAIN cachedEngines
            THEN Range(cachedEngines[calls[c].key].workerPool)
            ELSE {} : c \in Frames }

\* C37: terminated workers are never referenced: no cache entry leads to a
\* worker on which terminate() has been called, and no TranslationRequest
\* and no DiscardQueue message is posted to such a worker.
C37_NoTerminatedWorkerReferenced ==
  /\ [](\A w \in CachedWorkers : ~TerminateCalled(w))
  /\ [][\A w \in RequestedNow \cup DiscardedNow : ~TerminateCalled(w)]_vars

-----------------------------------------------------------------------------
(* Failures of one pair and the pending translations of another, checked   *)
(* under Spec.                                                             *)

\* the coordinator handles the error event or the TranslationsDiscarded
\* reply of worker w
FailureHandled(w) ==
  /\ workers[w].outbox # <<>>
  /\ Head(workers[w].outbox).type \in {"error", "translations-discarded"}
  /\ MainReceive(w)

\* worker v belongs to the language pair of worker w
SamePair(v, w) ==
  /\ workers[v].from = workers[w].from
  /\ workers[v].to = workers[w].to

\* the pending translations this step takes out of the pending map
Unpended == pendingMessages \ pendingMessages'

\* C38: a worker error on pair A, or discardTranslations(A) and the
\* TranslationsDiscarded replies it triggers, rejects only pending
\* translations dispatched to workers of A: a pending translation
\* dispatched to another pair is neither rejected nor taken out of the
\* pending map by them.
C38_FailuresStayInPair ==
  [][ /\ \A w \in DOMAIN workers :
           FailureHandled(w) =>
             \A i \in Unpended : SamePair(msgLog[i + 1].worker, w)
      /\ \A c \in Frames : DiscardTranslations(c) => Unpended = {} ]_vars

-----------------------------------------------------------------------------
(* The payloads of the workers' InitRequest, checked under SpecLoad.       *)

\* C39: the model payload list sent in every worker's InitRequest contains
\* only loaded model bundles, never a missing entry, also when the sweep's
\* releaseUnusedModelMemory runs while a Preload for another pair that is
\* not cached yet is loading its models.
C39_PayloadsAreLoaded ==
  \A f \in LoadIds :
    \A i \in 1..Len(loader.loads[f].payloads) :
      loader.loads[f].payloads[i] # NoPayload

-----------------------------------------------------------------------------
(* The yields of the work queue, checked under SpecQueue.                  *)

\* #run suspends at a yield in this step
YieldsNow ==
  Len(SelectSeq(queue'.immediates, LAMBDA x : x = "run")) >
    Len(SelectSeq(queue.immediates, LAMBDA x : x = "run"))

\* #run calls a queued task in this step
TakesNow ==
  /\ Len(queue'.started) = Len(queue.started) + 1
  /\ queue.tasks # <<>>
  /\ queue'.started[Len(queue'.started)] = Head(queue.tasks)

\* a drain begins in this step
DrainBegins == ~queue.isRunning /\ queue'.isRunning

\* C40: within one drain at most TASK_BATCH_SIZE queued tasks are called
\* between two consecutive yields: the batch counter counts the tasks
\* called since the last yield, is reset at each yield and never exceeds
\* TASK_BATCH_SIZE; and a drain yields once before it calls its first
\* task.
C40_YieldsEveryBatch ==
  /\ [](queue.run.batchCount <= TASK_BATCH_SIZE)
  /\ [][ TakesNow => /\ queue.run.batchCount < TASK_BATCH_SIZE
                     /\ queue'.run.batchCount = queue.run.batchCount + 1 ]_vars
  /\ [][ YieldsNow => queue'.run.batchCount = 0 ]_vars
  /\ [][ DrainBegins => /\ YieldsNow
                        /\ queue'.started = queue.started
                        /\ queue'.run.batchCount = 0 ]_vars
  /\ [][ (TakesNow /\ ~YieldsNow) =>
           (queue.run.pc = "yield" \/ queue.run.batchCount > 0) ]_vars

\* a drain has called a full batch of tasks since its last yield, the last
\* of them is running, and another task waits in the queue
C40_Witness ==
  /\ queue.isRunning
  /\ queue.run.pc = "task"
  /\ queue.run.batchCount = TASK_BATCH_SIZE
  /\ queue.tasks # <<>>
  /\ ~queue.isWorkCancelled

====
